---- MODULE Spec2Model ----
(***************************************************************************)
(* Hydra Racing: the simulation core of script.js (base engine, v2.0) and  *)
(* of its "Ultra HD" copy (extended engine, v3.0, which adds Nitro).        *)
(*                                                                         *)
(* Units.  JavaScript numbers are modelled by fixed-point integers:        *)
(*   positions          1/100 px          (Px(40) is 40 px)                *)
(*   currentSpeed       1/2000            (SpeedUnit is 1.0, +1 is 0.0005) *)
(*   distance           whole px and 1/20000 px (DistUnit is 1 px)         *)
(*   enemy speed        1/2 px per tick   (4 + 0.5*level is 8 + level)     *)
(*   clock              ms                                                 *)
(* Products that leave the grid (x += dx*0.15, the magnet's 0.1 pull and   *)
(* y += speed*currentSpeed*deltaSpeed) are rounded down to the grid.       *)
(***************************************************************************)
EXTENDS Integers, Sequences, FiniteSets, TLC

VARIABLES
  variant,      \* "base" (script.js) or "ext" (the Ultra HD copy)
  gameState,    \* the gameState object
  player,       \* the player object (x, y, lane)
  enemies,      \* the enemies array
  coins,        \* the coins array
  powerUps,     \* the powerUps array
  inputState,   \* inputState.targetLane
  timers,       \* the host's live setInterval timers
  localStorage, \* the persisted keys hydraTopScore and hydraTotalCoins
  clock,        \* the latest Date.now() reading
  trace,        \* history: the handler that ran last and what it did
  streak,       \* history: the dodges since combo was last set to 1
  ended,        \* history: the calls of gameOver since restartGame last ran
  fuel          \* history: how much exploration is left

vars == <<variant, gameState, player, enemies, coins, powerUps, inputState,
          timers, localStorage, clock, trace, streak, ended, fuel>>

progVars == <<gameState, player, enemies, coins, powerUps, inputState,
              timers, localStorage>>

----------------------------------------------------------------------------
(* Configuration *)

Variants == {"base", "ext"}

Px(n) == n * 100
SpeedUnit == 2 * 1000
DistUnit == 10 * SpeedUnit

\* gameState.distance: whole pixels, and the rest in 1/DistUnit of a pixel
NoDistance == [px |-> 0, frac |-> 0]

\* distance += inc, inc in 1/DistUnit of a pixel
Further(distance, inc) ==
  [px |-> distance.px + (distance.frac + inc) \div DistUnit,
   frac |-> (distance.frac + inc) % DistUnit]

CONFIG ==
  [base |-> [lanes |-> 5, playerWidth |-> 40, playerHeight |-> 75,
             enemyWidth |-> 40, enemyHeight |-> 75,
             initialEnemySpeed |-> 4, maxEnemySpeed |-> 12,
             enemySpawnRate |-> 1500, minEnemySpawnRate |-> 600,
             coinSize |-> 30, coinValue |-> 10, coinSpawnRate |-> 2000,
             powerUpSize |-> 40, powerUpSpawnRate |-> 8000,
             shieldDuration |-> 5000, magnetDuration |-> 7000,
             slowMoDuration |-> 5000, doublePointsDuration |-> 10000,
             nitroDuration |-> 0,
             comboTimeout |-> 2000, difficultyIncreaseInterval |-> 5000,
             roadMarkingSpeed |-> 5],
   ext  |-> [lanes |-> 5, playerWidth |-> 45, playerHeight |-> 85,
             enemyWidth |-> 45, enemyHeight |-> 85,
             initialEnemySpeed |-> 4, maxEnemySpeed |-> 12,
             enemySpawnRate |-> 1500, minEnemySpawnRate |-> 600,
             coinSize |-> 28, coinValue |-> 10, coinSpawnRate |-> 2000,
             powerUpSize |-> 38, powerUpSpawnRate |-> 8000,
             shieldDuration |-> 5000, magnetDuration |-> 7000,
             slowMoDuration |-> 5000, doublePointsDuration |-> 10000,
             nitroDuration |-> 3000,
             comboTimeout |-> 2000, difficultyIncreaseInterval |-> 5000,
             roadMarkingSpeed |-> 5]]

\* Object.keys(POWER_UP_TYPES), in order
POWER_UP_TYPES ==
  [base |-> <<"SHIELD", "MAGNET", "SLOW_MO", "DOUBLE_POINTS">>,
   ext  |-> <<"SHIELD", "MAGNET", "SLOW_MO", "DOUBLE_POINTS", "NITRO">>]

Null == "null"

\* The size of .game-container, read by resizeCanvas
canvasWidth == 400
canvasHeight == 320

\* CONFIG.laneWidth as resizeCanvas sets it for a container clientWidth px wide
resizeCanvas(v, clientWidth) == Px(clientWidth) \div CONFIG[v].lanes

\* CONFIG.laneWidth = canvasWidth / CONFIG.lanes
laneWidth(v) == resizeCanvas(v, canvasWidth)

\* the left edge of the lane in place of the centred car
getLaneXLeft(v, lw, lane) == lane * lw

\* getLaneX(lane) with CONFIG.laneWidth = lw
getLaneXAt(v, lw, lane) == lane * lw + (lw - Px(CONFIG[v].playerWidth)) \div 2

getLaneX(v, lane) == getLaneXAt(v, laneWidth(v), lane)

Lanes(v) == 0 .. (CONFIG[v].lanes - 1)

Max(a, b) == IF a > b THEN a ELSE b
Min(a, b) == IF a < b THEN a ELSE b

\* floor(a * num / den) for a of either sign
Scale(a, num, den) == (a * num) \div den

RemoveAt(s, i) == [k \in 1 .. (Len(s) - 1) |-> IF k < i THEN s[k] ELSE s[k + 1]]

----------------------------------------------------------------------------
(* The world: every variable of the program in one record, so that a       *)
(* handler is an operator from worlds to worlds.                           *)

World ==
  [variant |-> variant, gameState |-> gameState, player |-> player,
   enemies |-> enemies, coins |-> coins, powerUps |-> powerUps,
   inputState |-> inputState, timers |-> timers,
   localStorage |-> localStorage, clock |-> clock, streak |-> streak,
   ended |-> ended,
   log |-> <<>>]

\* A handler's effect on the variables; op names the handler.
Commit(op, w, f) ==
  /\ variant' = w.variant
  /\ gameState' = w.gameState
  /\ player' = w.player
  /\ enemies' = w.enemies
  /\ coins' = w.coins
  /\ powerUps' = w.powerUps
  /\ inputState' = w.inputState
  /\ timers' = w.timers
  /\ localStorage' = w.localStorage
  /\ clock' = w.clock
  /\ trace' = [op |-> op, log |-> w.log]
  /\ streak' = w.streak
  /\ ended' = w.ended
  /\ fuel' = f

Logged(w, e) == [w EXCEPT !.log = Append(@, e)]

----------------------------------------------------------------------------
(* Construction: the module-level initialisers, then init() -> initPlayer  *)

initPlayer(w) ==
  [w EXCEPT !.inputState = [targetLane |-> 2],
            !.player = [x |-> getLaneX(w.variant, 1),
                        y |-> Px(canvasHeight - 150),
                        lane |-> 1]]

Constructed(v, t) ==
  initPlayer(
    [variant |-> v,
     gameState |-> [isPlaying |-> FALSE, isPaused |-> FALSE, isGameOver |-> FALSE,
                    score |-> 0, topScore |-> 0, coins |-> 0, totalCoins |-> 0,
                    distance |-> NoDistance, dodgedCars |-> 0, combo |-> 0,
                    lastDodgeTime |-> 0, currentSpeed |-> SpeedUnit,
                    difficultyLevel |-> 1,
                    hasShield |-> FALSE, hasMagnet |-> FALSE, hasSlowMo |-> FALSE,
                    hasDoublePoints |-> FALSE, hasNitro |-> FALSE,
                    activePowerUp |-> Null, powerUpEndTime |-> 0],
     player |-> [x |-> 0, y |-> 0, lane |-> 0],
     enemies |-> <<>>, coins |-> <<>>, powerUps |-> <<>>,
     inputState |-> [targetLane |-> 1],
     timers |-> <<>>,
     localStorage |-> [hydraTopScore |-> 0, hydraTotalCoins |-> 0],
     clock |-> t, streak |-> <<>>, ended |-> 0, log |-> <<>>])

----------------------------------------------------------------------------
(* Timers.  A live setInterval timer is a record; `held` says that the     *)
(* variable the program keeps its id in (enemySpawnTimer, coinSpawnTimer,  *)
(* powerUpSpawnTimer, countdownInterval) still names it.  clearInterval of *)
(* such a variable removes the held timer of that kind, and is a no-op     *)
(* when the id it holds is null or names a timer already cleared.          *)
(* `count` is the countdown closure's own counter (0 for a spawner).       *)

SpawnerKinds == {"enemy", "coin", "powerUp"}

clearInterval(ts, kind) == SelectSeq(ts, LAMBDA tm : ~(tm.kind = kind /\ tm.held))

\* handle = setInterval(...): the variable now names the new timer only
setInterval(ts, kind, rate, count) ==
  Append([i \in 1 .. Len(ts) |->
            IF ts[i].kind = kind THEN [ts[i] EXCEPT !.held = FALSE] ELSE ts[i]],
         [kind |-> kind, rate |-> rate, count |-> count, held |-> TRUE])

Live(ts, kind) == {i \in 1 .. Len(ts) : ts[i].kind = kind}

stopSpawners(w) ==
  [w EXCEPT !.timers =
     clearInterval(clearInterval(clearInterval(@, "enemy"), "coin"), "powerUp")]

\* spawnRate without the floor of minEnemySpawnRate
spawnRateUnbounded(w) ==
  CONFIG[w.variant].enemySpawnRate - w.gameState.difficultyLevel * 100

spawnRate(w) ==
  Max(CONFIG[w.variant].minEnemySpawnRate,
      CONFIG[w.variant].enemySpawnRate - w.gameState.difficultyLevel * 100)

\* startSpawners without the stopSpawners call it begins with
startSpawnersStacking(w) ==
  LET c == CONFIG[w.variant]
  IN [w EXCEPT !.timers =
        setInterval(setInterval(setInterval(@, "enemy", spawnRate(w), 0),
                                "coin", c.coinSpawnRate, 0),
                    "powerUp", c.powerUpSpawnRate, 0)]

startSpawners(w) ==
  LET w1 == stopSpawners(w)
      c == CONFIG[w.variant]
  IN [w1 EXCEPT !.timers =
        setInterval(setInterval(setInterval(@, "enemy", spawnRate(w1), 0),
                                "coin", c.coinSpawnRate, 0),
                    "powerUp", c.powerUpSpawnRate, 0)]

----------------------------------------------------------------------------
(* Game controls *)

Active(w) == w.gameState.isPlaying /\ ~w.gameState.isPaused

moveLeft(w) ==
  IF ~w.gameState.isPlaying \/ w.gameState.isPaused THEN w
  ELSE IF w.inputState.targetLane > 0
       THEN [w EXCEPT !.inputState.targetLane = @ - 1]
       ELSE w

\* moveRight with the test against the lane count, not the last lane
moveRightPastEdge(w) ==
  IF ~w.gameState.isPlaying \/ w.gameState.isPaused THEN w
  ELSE IF w.inputState.targetLane < CONFIG[w.variant].lanes
       THEN [w EXCEPT !.inputState.targetLane = @ + 1]
       ELSE w

moveRight(w) ==
  IF ~w.gameState.isPlaying \/ w.gameState.isPaused THEN w
  ELSE IF w.inputState.targetLane < CONFIG[w.variant].lanes - 1
       THEN [w EXCEPT !.inputState.targetLane = @ + 1]
       ELSE w

\* let count = 3; countdownInterval = setInterval(..., 1000)
showCountdown(w) ==
  [w EXCEPT !.timers = setInterval(@, "countdown", 1000, 3)]

startGame(w) == showCountdown(w)

\* the callback startGame hands to showCountdown
startCallback(w) ==
  startSpawners([w EXCEPT !.gameState.isPlaying = TRUE,
                          !.gameState.isPaused = FALSE,
                          !.gameState.isGameOver = FALSE])

\* One firing of the interval callback of live countdown timer i.  The      
\* closure's count keeps falling below 0 in a timer that is never cleared; 
\* only its sign is read, so it is kept at 0 from there on.
countdownFire(w, i) ==
  LET c == w.timers[i].count - 1
  IN IF c > 0
     THEN [w EXCEPT !.timers[i].count = c]
     ELSE startCallback(
            Logged([w EXCEPT !.timers = clearInterval([@ EXCEPT ![i].count = 0],
                                                      "countdown")],
                   [e |-> "start", before |-> w.gameState]))

\* pauseGame as a switch
pauseGameFlipping(w) == stopSpawners([w EXCEPT !.gameState.isPaused = ~@])

pauseGame(w) == stopSpawners([w EXCEPT !.gameState.isPaused = TRUE])

\* resumeGame that leaves the pause flag and stops play
resumeGameHalting(w) == startSpawners([w EXCEPT !.gameState.isPlaying = FALSE])

resumeGame(w) == startSpawners([w EXCEPT !.gameState.isPaused = FALSE])

\* gameOver that stores the score of the run whether or not it is a record
gameOverOverwriting(w) ==
  LET w1 == stopSpawners([w EXCEPT !.ended = @ + 1,
                                   !.gameState.isPlaying = FALSE,
                                   !.gameState.isGameOver = TRUE,
                                   !.gameState.topScore = w.gameState.score,
                                   !.localStorage.hydraTopScore = w.gameState.score,
                                   !.gameState.totalCoins = @ + w.gameState.coins,
                                   !.localStorage.hydraTotalCoins =
                                      w.gameState.totalCoins + w.gameState.coins])
  IN Logged(w1, [e |-> "gameOver", gameState |-> w1.gameState,
                 coins |-> w1.coins, powerUps |-> w1.powerUps,
                 enemies |-> w1.enemies, before |-> w.gameState,
                 stored |-> w1.localStorage])

gameOver(w) ==
  LET w1 == stopSpawners([w EXCEPT !.ended = @ + 1,
                                   !.gameState.isPlaying = FALSE,
                                   !.gameState.isGameOver = TRUE])
      isNewRecord == w1.gameState.score > w1.gameState.topScore
      w2 == IF isNewRecord
            THEN [w1 EXCEPT !.gameState.topScore = w1.gameState.score,
                            !.localStorage.hydraTopScore = w1.gameState.score]
            ELSE w1
      w3 == [w2 EXCEPT !.gameState.totalCoins = @ + w2.gameState.coins,
                       !.localStorage.hydraTotalCoins =
                          w2.gameState.totalCoins + w2.gameState.coins]
  IN Logged(w3, [e |-> "gameOver", gameState |-> w3.gameState,
                 coins |-> w3.coins, powerUps |-> w3.powerUps,
                 enemies |-> w3.enemies, before |-> w.gameState,
                 stored |-> w3.localStorage])

\* restartGame that adds the coins of the run given up to totalCoins
restartGameBanking(w) ==
  startGame(initPlayer(
    [w EXCEPT !.gameState.score = 0, !.gameState.coins = 0,
              !.gameState.distance = NoDistance, !.gameState.dodgedCars = 0,
              !.gameState.combo = 0, !.gameState.currentSpeed = SpeedUnit,
              !.gameState.difficultyLevel = 1,
              !.gameState.isGameOver = FALSE, !.gameState.isPlaying = FALSE,
              !.gameState.isPaused = FALSE,
              !.gameState.hasShield = FALSE, !.gameState.hasMagnet = FALSE,
              !.gameState.hasSlowMo = FALSE, !.gameState.hasDoublePoints = FALSE,
              !.gameState.hasNitro = FALSE, !.gameState.activePowerUp = Null,
              !.enemies = <<>>, !.coins = <<>>, !.powerUps = <<>>,
              !.gameState.totalCoins = @ + w.gameState.coins,
              !.ended = 0]))

restartGame(w) ==
  startGame(initPlayer(
    [w EXCEPT !.gameState.score = 0, !.gameState.coins = 0,
              !.gameState.distance = NoDistance, !.gameState.dodgedCars = 0,
              !.gameState.combo = 0, !.gameState.currentSpeed = SpeedUnit,
              !.gameState.difficultyLevel = 1,
              !.gameState.isGameOver = FALSE, !.gameState.isPlaying = FALSE,
              !.gameState.isPaused = FALSE,
              !.gameState.hasShield = FALSE, !.gameState.hasMagnet = FALSE,
              !.gameState.hasSlowMo = FALSE, !.gameState.hasDoublePoints = FALSE,
              !.gameState.hasNitro = FALSE, !.gameState.activePowerUp = Null,
              !.enemies = <<>>, !.coins = <<>>, !.powerUps = <<>>,
              !.ended = 0]))

togglePlayPause(w) ==
  IF w.gameState.isGameOver
  THEN Logged(restartGame(w), [e |-> "restartGame", before |-> w])
  ELSE IF ~w.gameState.isPlaying THEN Logged(startGame(w), [e |-> "startGame"])
  ELSE IF w.gameState.isPaused THEN Logged(resumeGame(w), [e |-> "resumeGame"])
  ELSE Logged(pauseGame(w), [e |-> "pauseGame"])

resetTopScore(w) ==
  [w EXCEPT !.gameState.topScore = 0, !.localStorage.hydraTopScore = 0]

----------------------------------------------------------------------------
(* Spawners: the three interval callbacks.  lane, type and roll stand for  *)
(* the values drawn from Math.random().                                    *)

\* spawnEnemy that puts the new enemy at the front of the store
spawnEnemyFront(w, lane) ==
  IF ~w.gameState.isPlaying \/ w.gameState.isPaused THEN w
  ELSE LET c == CONFIG[w.variant]
           minDistance == Px(c.enemyHeight * 2)
           canSpawn == ~\E i \in 1 .. Len(w.enemies) :
                          w.enemies[i].lane = lane /\ w.enemies[i].y < minDistance
       IN IF canSpawn
          THEN [w EXCEPT !.enemies =
                  <<[x |-> getLaneX(w.variant, lane),
                     y |-> -Px(c.enemyHeight),
                     lane |-> lane,
                     speed |-> 2 * c.initialEnemySpeed
                                 + w.gameState.difficultyLevel,
                     passed |-> FALSE,
                     touched |-> FALSE]>> \o @]
          ELSE w

\* spawnEnemy with the speed held at maxEnemySpeed
spawnEnemyClamped(w, lane) ==
  IF ~w.gameState.isPlaying \/ w.gameState.isPaused THEN w
  ELSE LET c == CONFIG[w.variant]
           minDistance == Px(c.enemyHeight * 2)
           canSpawn == ~\E i \in 1 .. Len(w.enemies) :
                          w.enemies[i].lane = lane /\ w.enemies[i].y < minDistance
       IN IF canSpawn
          THEN [w EXCEPT !.enemies =
                  Append(@, [x |-> getLaneX(w.variant, lane),
                             y |-> -Px(c.enemyHeight),
                             lane |-> lane,
                             speed |-> Min(2 * c.maxEnemySpeed,
                                           2 * c.initialEnemySpeed
                                             + w.gameState.difficultyLevel),
                             passed |-> FALSE,
                             touched |-> FALSE])]
          ELSE w

\* spawnEnemy without the look at the enemies already in the lane
spawnEnemyStacking(w, lane) ==
  IF ~w.gameState.isPlaying \/ w.gameState.isPaused THEN w
  ELSE LET c == CONFIG[w.variant]
       IN [w EXCEPT !.enemies =
             Append(@, [x |-> getLaneX(w.variant, lane),
                        y |-> -Px(c.enemyHeight),
                        lane |-> lane,
                        speed |-> 2 * c.initialEnemySpeed
                                    + w.gameState.difficultyLevel,
                        passed |-> FALSE,
                        touched |-> FALSE])]

spawnEnemy(w, lane) ==
  IF ~w.gameState.isPlaying \/ w.gameState.isPaused THEN w
  ELSE LET c == CONFIG[w.variant]
           minDistance == Px(c.enemyHeight * 2)
           canSpawn == ~\E i \in 1 .. Len(w.enemies) :
                          w.enemies[i].lane = lane /\ w.enemies[i].y < minDistance
       IN IF canSpawn
          THEN [w EXCEPT !.enemies =
                  Append(@, [x |-> getLaneX(w.variant, lane),
                             y |-> -Px(c.enemyHeight),
                             lane |-> lane,
                             speed |-> 2 * c.initialEnemySpeed
                                         + w.gameState.difficultyLevel,
                             passed |-> FALSE,
                             touched |-> FALSE])]
          ELSE w

\* spawnCoin without the isPlaying / isPaused gate
spawnCoinUngated(w, lane) ==
  [w EXCEPT !.coins =
     Append(@, [x |-> getLaneX(w.variant, lane),
                y |-> -Px(CONFIG[w.variant].coinSize), lane |-> lane])]

spawnCoin(w, lane) ==
  IF ~w.gameState.isPlaying \/ w.gameState.isPaused THEN w
  ELSE LET c == CONFIG[w.variant]
           isSafe == ~\E i \in 1 .. Len(w.enemies) :
                        w.enemies[i].lane = lane /\ w.enemies[i].y < Px(c.coinSize * 3)
       IN IF isSafe
          THEN [w EXCEPT !.coins =
                  Append(@, [x |-> getLaneX(w.variant, lane),
                             y |-> -Px(c.coinSize),
                             lane |-> lane])]
          ELSE w

\* roll is TRUE when Math.random() > 0.5
spawnPowerUp(w, roll, lane, type) ==
  IF ~w.gameState.isPlaying \/ w.gameState.isPaused THEN w
  ELSE IF roll THEN w
  ELSE [w EXCEPT !.powerUps =
          Append(@, [x |-> getLaneX(w.variant, lane),
                     y |-> -Px(CONFIG[w.variant].powerUpSize),
                     lane |-> lane,
                     type |-> type])]

----------------------------------------------------------------------------
(* Collisions.  a is the player, b an enemy; both are rectangles of the    *)
(* configured car size.                                                    *)

\* checkCollision with a padding of 20 px, the overlap of two rectangles each
\* shrunk by 10 px
checkCollisionBothShrunk(v, a, b) ==
  LET c == CONFIG[v]
      padding == Px(20)
  IN /\ a.x < b.x + Px(c.enemyWidth) - padding
     /\ a.x + Px(c.playerWidth) > b.x + padding
     /\ a.y < b.y + Px(c.enemyHeight) - padding
     /\ a.y + Px(c.playerHeight) > b.y + padding

\* checkCollision with the padding outwards: rectangles up to 20 px apart hit
checkCollisionGenerous(v, a, b) ==
  LET c == CONFIG[v]
      padding == -Px(20)
  IN /\ a.x < b.x + Px(c.enemyWidth) - padding
     /\ a.x + Px(c.playerWidth) > b.x + padding
     /\ a.y < b.y + Px(c.enemyHeight) - padding
     /\ a.y + Px(c.playerHeight) > b.y + padding

checkCollision(v, a, b) ==
  LET c == CONFIG[v]
      padding == Px(10)
  IN /\ a.x < b.x + Px(c.enemyWidth) - padding
     /\ a.x + Px(c.playerWidth) > b.x + padding
     /\ a.y < b.y + Px(c.enemyHeight) - padding
     /\ a.y + Px(c.playerHeight) > b.y + padding

\* circleHitsPlayer with a circle that touches the rectangle counted
circleTouchesPlayer(v, p, x, y, size) ==
  LET c == CONFIG[v]
      r == Px(size) \div 2
      centerX == x + r
      centerY == y + r
      closestX == Max(p.x, Min(centerX, p.x + Px(c.playerWidth)))
      closestY == Max(p.y, Min(centerY, p.y + Px(c.playerHeight)))
      dx == centerX - closestX
      dy == centerY - closestY
  IN /\ dx <= r /\ -dx <= r /\ dy <= r /\ -dy <= r
     /\ dx * dx + dy * dy <= r * r

\* the circle of diameter size at (x, y) against the player rectangle;
\* size is in px, and size/2 is exact on the grid
circleHitsPlayer(v, p, x, y, size) ==
  LET c == CONFIG[v]
      r == Px(size) \div 2
      centerX == x + r
      centerY == y + r
      closestX == Max(p.x, Min(centerX, p.x + Px(c.playerWidth)))
      closestY == Max(p.y, Min(centerY, p.y + Px(c.playerHeight)))
      dx == centerX - closestX
      dy == centerY - closestY
  IN \* |dx| or |dy| of r or more already decides it, and keeps the squares small
     /\ dx < r /\ -dx < r /\ dy < r /\ -dy < r
     /\ dx * dx + dy * dy < r * r

checkCoinCollision(v, p, coin) ==
  circleHitsPlayer(v, p, coin.x, coin.y, CONFIG[v].coinSize)

checkPowerUpCollision(v, p, powerUp) ==
  circleHitsPlayer(v, p, powerUp.x, powerUp.y, CONFIG[v].powerUpSize)

----------------------------------------------------------------------------
(* Collection and scoring.  now is the reading of Date.now().              *)

collectCoin(w) ==
  LET value == IF w.gameState.hasDoublePoints
               THEN CONFIG[w.variant].coinValue * 2
               ELSE CONFIG[w.variant].coinValue
      w1 == [w EXCEPT !.gameState.coins = @ + value,
                      !.gameState.score = @ + value * 10]
  IN Logged(w1, [e |-> "collectCoin", value |-> value,
                 before |-> w.gameState, after |-> w1.gameState])

deactivatePowerUp(w) ==
  [w EXCEPT !.gameState.hasShield = FALSE, !.gameState.hasMagnet = FALSE,
            !.gameState.hasSlowMo = FALSE, !.gameState.hasDoublePoints = FALSE,
            !.gameState.hasNitro = FALSE, !.gameState.activePowerUp = Null]

\* the switch over type, with the time left of the previous effect carried over
activateExtending(w, type, now) ==
  LET c == CONFIG[w.variant]
      from == Max(now, w.gameState.powerUpEndTime)
  IN CASE type = "SHIELD" ->
            [w EXCEPT !.gameState.hasShield = TRUE,
                      !.gameState.powerUpEndTime = from + c.shieldDuration]
       [] type = "MAGNET" ->
            [w EXCEPT !.gameState.hasMagnet = TRUE,
                      !.gameState.powerUpEndTime = from + c.magnetDuration]
       [] type = "SLOW_MO" ->
            [w EXCEPT !.gameState.hasSlowMo = TRUE,
                      !.gameState.powerUpEndTime = from + c.slowMoDuration]
       [] type = "DOUBLE_POINTS" ->
            [w EXCEPT !.gameState.hasDoublePoints = TRUE,
                      !.gameState.powerUpEndTime = from + c.doublePointsDuration]
       [] type = "NITRO" /\ w.variant = "ext" ->
            [w EXCEPT !.gameState.hasNitro = TRUE,
                      !.gameState.powerUpEndTime = from + c.nitroDuration]
       [] OTHER -> w

\* the switch over type; a type without a case sets no flag and no end time
activate(w, type, now) ==
  LET c == CONFIG[w.variant]
  IN CASE type = "SHIELD" ->
            [w EXCEPT !.gameState.hasShield = TRUE,
                      !.gameState.powerUpEndTime = now + c.shieldDuration]
       [] type = "MAGNET" ->
            [w EXCEPT !.gameState.hasMagnet = TRUE,
                      !.gameState.powerUpEndTime = now + c.magnetDuration]
       [] type = "SLOW_MO" ->
            [w EXCEPT !.gameState.hasSlowMo = TRUE,
                      !.gameState.powerUpEndTime = now + c.slowMoDuration]
       [] type = "DOUBLE_POINTS" ->
            [w EXCEPT !.gameState.hasDoublePoints = TRUE,
                      !.gameState.powerUpEndTime = now + c.doublePointsDuration]
       [] type = "NITRO" /\ w.variant = "ext" ->
            [w EXCEPT !.gameState.hasNitro = TRUE,
                      !.gameState.powerUpEndTime = now + c.nitroDuration]
       [] OTHER -> w

\* collectPowerUp with the previous power-up left in place
collectPowerUpStacking(w, powerUp, now) ==
  LET w2 == [w EXCEPT !.gameState.activePowerUp = powerUp.type]
      w3 == activate(w2, powerUp.type, now)
  IN Logged(w3, [e |-> "collectPowerUp", type |-> powerUp.type, now |-> now,
                 before |-> w.gameState, after |-> w3.gameState])

collectPowerUp(w, powerUp, now) ==
  LET w1 == IF w.gameState.activePowerUp # Null THEN deactivatePowerUp(w) ELSE w
      w2 == [w1 EXCEPT !.gameState.activePowerUp = powerUp.type]
      w3 == activate(w2, powerUp.type, now)
  IN Logged(w3, [e |-> "collectPowerUp", type |-> powerUp.type, now |-> now,
                 before |-> w.gameState, after |-> w3.gameState])

\* handleDodge with a streak that still counts at exactly comboTimeout
handleDodgeInclusive(w, now) ==
  LET combo == IF now - w.gameState.lastDodgeTime <= CONFIG[w.variant].comboTimeout
               THEN w.gameState.combo + 1
               ELSE 1
      comboBonus == combo * 50
      doubleMultiplier == IF w.gameState.hasDoublePoints THEN 2 ELSE 1
      dodge == [combo |-> combo, award |-> comboBonus * doubleMultiplier,
                doubled |-> w.gameState.hasDoublePoints]
      w1 == [w EXCEPT !.gameState.combo = combo,
                      !.gameState.lastDodgeTime = now,
                      !.gameState.score = @ + comboBonus * doubleMultiplier,
                      !.streak = IF combo = 1 THEN <<dodge>> ELSE Append(@, dodge)]
  IN Logged(w1, [e |-> "handleDodge", now |-> now, before |-> w.gameState,
                 after |-> w1.gameState, award |-> comboBonus * doubleMultiplier])

handleDodge(w, now) ==
  LET combo == IF now - w.gameState.lastDodgeTime < CONFIG[w.variant].comboTimeout
               THEN w.gameState.combo + 1
               ELSE 1
      comboBonus == combo * 50
      doubleMultiplier == IF w.gameState.hasDoublePoints THEN 2 ELSE 1
      dodge == [combo |-> combo, award |-> comboBonus * doubleMultiplier,
                doubled |-> w.gameState.hasDoublePoints]
      w1 == [w EXCEPT !.gameState.combo = combo,
                      !.gameState.lastDodgeTime = now,
                      !.gameState.score = @ + comboBonus * doubleMultiplier,
                      !.streak = IF combo = 1 THEN <<dodge>> ELSE Append(@, dodge)]
  IN Logged(w1, [e |-> "handleDodge", now |-> now, before |-> w.gameState,
                 after |-> w1.gameState, award |-> comboBonus * doubleMultiplier])

----------------------------------------------------------------------------
(* The update pass.  ds2 is deltaSpeed in halves (1 under SlowMo, else 2). *)

\* for (let i = enemies.length - 1; i >= 0; i--), here from index i down to 1
\* a crash whatever the shield
crashesThroughShield(w, enemy) == checkCollision(w.variant, w.player, enemy)

\* if (!gameState.hasShield && checkCollision(player, enemy))
crashes(w, enemy) ==
  ~w.gameState.hasShield /\ checkCollision(w.variant, w.player, enemy)

\* an enemy below the player counts as a dodge whenever it is seen there
dodgedAgain(w, enemy) ==
  enemy.y > w.player.y + Px(CONFIG[w.variant].playerHeight)

\* if (!enemy.passed && enemy.y > player.y + player.height)
dodged(w, enemy) ==
  ~enemy.passed /\ enemy.y > w.player.y + Px(CONFIG[w.variant].playerHeight)

\* enemy.touched is history: checkCollision(player, enemy) was true in some pass
RECURSIVE updateEnemiesFrom(_, _, _, _)
updateEnemiesFrom(w, i, ds2, now) ==
  IF i = 0 THEN w
  ELSE
    LET c == CONFIG[w.variant]
        y1 == w.enemies[i].y
                + (w.enemies[i].speed * w.gameState.currentSpeed * ds2) \div 80
        hit == checkCollision(w.variant, w.player, [w.enemies[i] EXCEPT !.y = y1])
        moved == [w.enemies[i] EXCEPT !.y = y1, !.touched = @ \/ hit]
        w1 == Logged([w EXCEPT !.enemies[i] = moved],
                     [e |-> "enemy", enemy |-> moved, hit |-> hit,
                      hasShield |-> w.gameState.hasShield])
    IN IF crashes(w, moved)
       THEN gameOver(w1)
       ELSE
         LET w2 == IF dodged(w, moved)
                   THEN handleDodge([w1 EXCEPT !.enemies[i].passed = TRUE,
                                               !.gameState.dodgedCars = @ + 1],
                                    now)
                   ELSE w1
             w3 == IF y1 > Px(canvasHeight) + Px(c.enemyHeight)
                   THEN [w2 EXCEPT !.enemies = RemoveAt(@, i)]
                   ELSE w2
         IN updateEnemiesFrom(w3, i - 1, ds2, now)

updateEnemies(w, ds2, now) == updateEnemiesFrom(w, Len(w.enemies), ds2, now)

\* the magnet's pull on one coin (coin.rotation is cosmetic and not kept)
magnetPull(w, coin) ==
  LET dx == w.player.x - coin.x
      dy == w.player.y - coin.y
      magnetRange == Px(150)
      near == /\ dx < magnetRange /\ -dx < magnetRange
              /\ dy < magnetRange /\ -dy < magnetRange
              /\ dx * dx + dy * dy < magnetRange * magnetRange
  IN IF w.gameState.hasMagnet /\ near
     THEN [coin EXCEPT !.x = @ + Scale(dx, 1, 10), !.y = @ + Scale(dy, 1, 10)]
     ELSE coin

\* a collected coin that stays on the road
takeCoinAndKeep(w, i) == collectCoin(w)

\* collectCoin(coin); coins.splice(i, 1); continue
takeCoin(w, i) == [collectCoin(w) EXCEPT !.coins = RemoveAt(@, i)]

RECURSIVE updateCoinsFrom(_, _, _)

\* coin i, checked against the player: collected, fallen off the screen (left)
\* or kept; then the coins before it
settleCoin(w, i, ds2, hit, left) ==
  IF hit
  THEN updateCoinsFrom(takeCoin(w, i), i - 1, ds2)
  ELSE IF left
  THEN updateCoinsFrom([w EXCEPT !.coins = RemoveAt(@, i)], i - 1, ds2)
  ELSE updateCoinsFrom(w, i - 1, ds2)

\* coin i moved to where this pass puts it
moveCoin(w, i, ds2, coin, hit, left) ==
  settleCoin(Logged([w EXCEPT !.coins[i] = coin],
                    [e |-> "coin", coin |-> coin, hit |-> hit, left |-> left]),
             i, ds2, hit, left)

updateCoinsFrom(w, i, ds2) ==
  IF i = 0 THEN w
  ELSE
    LET c == CONFIG[w.variant]
        fallen == [w.coins[i] EXCEPT
                     !.y = @ + (c.roadMarkingSpeed * w.gameState.currentSpeed * ds2)
                                 \div 40]
        coin == magnetPull(w, fallen)
    IN moveCoin(w, i, ds2, coin,
                checkCoinCollision(w.variant, w.player, coin),
                coin.y > Px(canvasHeight) + Px(c.coinSize))

\* what the pass over the coins did, for the record
coinsUpdated(w, w1) ==
  Logged(w1, [e |-> "updateCoins", before |-> w.gameState, after |-> w1.gameState,
              stored |-> Len(w.coins), kept |-> Len(w1.coins)])

updateCoins(w, ds2) == coinsUpdated(w, updateCoinsFrom(w, Len(w.coins), ds2))

\* the pass over the power-ups without the removal of those off the screen
RECURSIVE updatePowerUpsFromKeeping(_, _, _, _)
updatePowerUpsFromKeeping(w, i, ds2, now) ==
  IF i = 0 THEN w
  ELSE
    LET c == CONFIG[w.variant]
        powerUp == [w.powerUps[i] EXCEPT
                      !.y = @ + (c.roadMarkingSpeed * w.gameState.currentSpeed * ds2)
                                  \div 40]
        w1 == [w EXCEPT !.powerUps[i] = powerUp]
    IN IF checkPowerUpCollision(w.variant, w.player, powerUp)
       THEN updatePowerUpsFromKeeping(
              [collectPowerUp(w1, powerUp, now) EXCEPT !.powerUps = RemoveAt(@, i)],
              i - 1, ds2, now)
       ELSE updatePowerUpsFromKeeping(w1, i - 1, ds2, now)

RECURSIVE updatePowerUpsFrom(_, _, _, _)
updatePowerUpsFrom(w, i, ds2, now) ==
  IF i = 0 THEN w
  ELSE
    LET c == CONFIG[w.variant]
        powerUp == [w.powerUps[i] EXCEPT
                      !.y = @ + (c.roadMarkingSpeed * w.gameState.currentSpeed * ds2)
                                  \div 40]
        w1 == [w EXCEPT !.powerUps[i] = powerUp]
    IN IF checkPowerUpCollision(w.variant, w.player, powerUp)
       THEN updatePowerUpsFrom(
              [collectPowerUp(w1, powerUp, now) EXCEPT !.powerUps = RemoveAt(@, i)],
              i - 1, ds2, now)
       ELSE IF powerUp.y > Px(canvasHeight) + Px(c.powerUpSize)
       THEN updatePowerUpsFrom([w1 EXCEPT !.powerUps = RemoveAt(@, i)],
                               i - 1, ds2, now)
       ELSE updatePowerUpsFrom(w1, i - 1, ds2, now)

updatePowerUps(w, ds2, now) == updatePowerUpsFrom(w, Len(w.powerUps), ds2, now)

\* updatePowerUpTimers with expiry at the end time itself
updatePowerUpTimersEarly(w, now) ==
  LET w1 == Logged(w, [e |-> "poll", now |-> now,
                       activePowerUp |-> w.gameState.activePowerUp,
                       powerUpEndTime |-> w.gameState.powerUpEndTime])
  IN IF w.gameState.activePowerUp # Null /\ now >= w.gameState.powerUpEndTime
     THEN deactivatePowerUp(w1)
     ELSE w1

updatePowerUpTimers(w, now) ==
  LET w1 == Logged(w, [e |-> "poll", now |-> now,
                       activePowerUp |-> w.gameState.activePowerUp,
                       powerUpEndTime |-> w.gameState.powerUpEndTime])
  IN IF w.gameState.activePowerUp # Null /\ now > w.gameState.powerUpEndTime
     THEN deactivatePowerUp(w1)
     ELSE w1

\* updateCombo that lets a streak live twice as long
updateComboLate(w, now) ==
  IF w.gameState.combo > 0
       /\ now - w.gameState.lastDodgeTime > 2 * CONFIG[w.variant].comboTimeout
  THEN [w EXCEPT !.gameState.combo = 0]
  ELSE w

updateCombo(w, now) ==
  IF w.gameState.combo > 0
       /\ now - w.gameState.lastDodgeTime > CONFIG[w.variant].comboTimeout
  THEN [w EXCEPT !.gameState.combo = 0]
  ELSE w

\* advance with currentSpeed left as it is
advanceCoasting(w, ds2) ==
  LET nitro10 == IF w.gameState.hasNitro THEN 18 ELSE 10
      speed == w.gameState.currentSpeed
      distance == Further(w.gameState.distance, (speed * ds2 * nitro10) \div 2)
  IN [w EXCEPT !.gameState.distance = distance]

\* speed, distance, the Nitro bonus (extended engine) and the difficulty level
advance(w, ds2) ==
  LET nitro10 == IF w.gameState.hasNitro THEN 18 ELSE 10
      speed == w.gameState.currentSpeed + 1
      distance == Further(w.gameState.distance, (speed * ds2 * nitro10) \div 2)
      interval == CONFIG[w.variant].difficultyIncreaseInterval
  IN [w EXCEPT !.gameState.currentSpeed = speed,
               !.gameState.distance = distance,
               !.gameState.score =
                  IF w.gameState.hasNitro THEN @ + (10 * ds2) \div 2 ELSE @,
               !.gameState.difficultyLevel =
                  IF distance.px % interval < 10
                  THEN distance.px \div interval + 1
                  ELSE @]

\* player.x += dx * 0.15; player.lane = inputState.targetLane
steer(w) ==
  LET targetX == getLaneX(w.variant, w.inputState.targetLane)
      dx == targetX - w.player.x
  IN [w EXCEPT !.player.x = @ + Scale(dx, 15, 100),
               !.player.lane = w.inputState.targetLane]

\* continuous scoring that takes no account of SlowMo
addScoreFullSpeed(w, ds2) ==
  [w EXCEPT !.gameState.score = @ + w.gameState.currentSpeed \div SpeedUnit]

\* gameState.score += Math.floor(gameState.currentSpeed * deltaSpeed)
addScore(w, ds2) ==
  [w EXCEPT !.gameState.score = @ + (w.gameState.currentSpeed * ds2) \div (2 * SpeedUnit)]

\* update(), with now the clock reading of this pass
update(w, now) ==
  IF ~w.gameState.isPlaying \/ w.gameState.isPaused THEN w
  ELSE
    LET ds2 == IF w.gameState.hasSlowMo THEN 1 ELSE 2
        w1 == steer(advance([w EXCEPT !.clock = now], ds2))
        w2 == updateEnemies(w1, ds2, now)
        w3 == updateCoins(w2, ds2)
        w4 == updatePowerUps(w3, ds2, now)
        w5 == updatePowerUpTimers(w4, now)
        w6 == updateCombo(w5, now)
    IN Logged(addScore(w6, ds2),
              [e |-> "updated", now |-> now, before |-> w.gameState])

----------------------------------------------------------------------------
(* Bounds of the exploration *)

MaxTicks == 3        \* effective update passes explored from an initial state
MaxSpawns == 1       \* entities spawned from an initial state
MaxMoves == 3        \* lane changes from an initial state
MaxCmds == 3         \* play/pause, restart and reset commands from an initial state
MaxCountdowns == 2   \* countdown timers alive at once

\* ms between two clock readings of consecutive effective update passes
Delays == {1000, 2000, 2001, 5000}

\* the clock reading at construction (any value above every duration)
Epoch == 100 * 1000

Countdowns(w) == Cardinality(Live(w.timers, "countdown"))

----------------------------------------------------------------------------
(* Actions: one per event handler or timer callback the host can run *)

MoveLeft ==
  LET w == Logged(moveLeft(World),
                  [e |-> "moveLeft", from |-> inputState.targetLane])
      moved == w.inputState # inputState
  IN /\ moved => fuel.moves > 0
     /\ Commit("moveLeft", w,
               IF moved THEN [fuel EXCEPT !.moves = @ - 1] ELSE fuel)

MoveRight ==
  LET w == Logged(moveRight(World),
                  [e |-> "moveRight", from |-> inputState.targetLane])
      moved == w.inputState # inputState
  IN /\ moved => fuel.moves > 0
     /\ Commit("moveRight", w,
               IF moved THEN [fuel EXCEPT !.moves = @ - 1] ELSE fuel)

TogglePlayPause ==
  LET w == togglePlayPause(World)
  IN /\ fuel.cmds > 0
     /\ Countdowns(w) <= MaxCountdowns
     /\ Commit("togglePlayPause", w, [fuel EXCEPT !.cmds = @ - 1])

RestartGame ==
  LET w == Logged(restartGame(World), [e |-> "restartGame", before |-> World])
  IN /\ fuel.cmds > 0
     /\ Countdowns(w) <= MaxCountdowns
     /\ Commit("restartGame", w, [fuel EXCEPT !.cmds = @ - 1])

ResetTopScore ==
  /\ fuel.cmds > 0
  /\ Commit("resetTopScore", resetTopScore(World), [fuel EXCEPT !.cmds = @ - 1])

\* a firing of a live countdown interval
CountdownTick ==
  \E i \in Live(timers, "countdown") :
    Commit("countdown", countdownFire(World, i), fuel)

SpawnEnemyTick ==
  /\ Live(timers, "enemy") # {}
  /\ \E lane \in Lanes(variant) :
       LET w == Logged(spawnEnemy(World, lane), [e |-> "spawnEnemy", lane |-> lane])
           pushed == w.enemies # enemies
       IN /\ pushed => fuel.spawns > 0
          /\ Commit("spawnEnemy", w,
                    IF pushed THEN [fuel EXCEPT !.spawns = @ - 1] ELSE fuel)

SpawnCoinTick ==
  /\ Live(timers, "coin") # {}
  /\ \E lane \in Lanes(variant) :
       LET w == spawnCoin(World, lane)
           pushed == w.coins # coins
       IN /\ pushed => fuel.spawns > 0
          /\ Commit("spawnCoin", w,
                    IF pushed THEN [fuel EXCEPT !.spawns = @ - 1] ELSE fuel)

SpawnPowerUpTick ==
  /\ Live(timers, "powerUp") # {}
  /\ \E roll \in BOOLEAN :
     \E lane \in (IF roll THEN {0} ELSE Lanes(variant)),
        k \in (IF roll THEN {1} ELSE 1 .. Len(POWER_UP_TYPES[variant])) :
       LET w == spawnPowerUp(World, roll, lane, POWER_UP_TYPES[variant][k])
           pushed == w.powerUps # powerUps
       IN /\ pushed => fuel.spawns > 0
          /\ Commit("spawnPowerUp", w,
                    IF pushed THEN [fuel EXCEPT !.spawns = @ - 1] ELSE fuel)

\* a frame: render() calls update()
Frame ==
  \E d \in Delays :
    LET effective == gameState.isPlaying /\ ~gameState.isPaused
    IN /\ effective => fuel.ticks > 0
       /\ Commit("update", update(World, clock + d),
                 IF effective THEN [fuel EXCEPT !.ticks = @ - 1] ELSE fuel)

Next ==
  \/ MoveLeft
  \/ MoveRight
  \/ TogglePlayPause
  \/ RestartGame
  \/ ResetTopScore
  \/ CountdownTick
  \/ SpawnEnemyTick
  \/ SpawnCoinTick
  \/ SpawnPowerUpTick
  \/ Frame

Start(w, f) ==
  /\ variant = w.variant
  /\ gameState = w.gameState
  /\ player = w.player
  /\ enemies = w.enemies
  /\ coins = w.coins
  /\ powerUps = w.powerUps
  /\ inputState = w.inputState
  /\ timers = w.timers
  /\ localStorage = w.localStorage
  /\ clock = w.clock
  /\ trace = [op |-> "init", log |-> <<>>]
  /\ streak = w.streak
  /\ ended = w.ended
  /\ fuel = f

----------------------------------------------------------------------------
(* Scripts: a script is a sequence of events (a command, a timer firing,   *)
(* a frame with its clock delay), replayed from the constructed state with *)
(* the handlers above.  The state a script ends in is a state the program  *)
(* reaches; the initial states of the specifications are such states.      *)

Ev(c) == [c |-> c, lane |-> 0, type |-> Null, d |-> 0]
EvLane(c, lane) == [c |-> c, lane |-> lane, type |-> Null, d |-> 0]
PowerUpIn(lane, type) == [c |-> "spawnPowerUp", lane |-> lane, type |-> type, d |-> 0]
FrameAfter(d) == [c |-> "frame", lane |-> 0, type |-> Null, d |-> d]
Until(what) == [c |-> "until", lane |-> 0, type |-> what, d |-> 0]
Frames(n) == [c |-> "frames", lane |-> 0, type |-> Null, d |-> n]

\* the host's usual frame interval, ms
FrameMs == 16

HasEvent(w, e) == \E k \in 1 .. Len(w.log) : w.log[k].e = e

\* whether `what` happens in the frame that takes w to next
Brings(w, next, what) ==
  CASE what = "crash" -> next.gameState.isGameOver
    [] what = "dodge" -> HasEvent(next, "handleDodge")
    [] what = "powerUp" -> HasEvent(next, "collectPowerUp")
    [] what = "coin" -> HasEvent(next, "collectCoin")
    [] what = "overlap" ->
         \E k \in 1 .. Len(next.log) : next.log[k].e = "enemy" /\ next.log[k].hit
    [] what = "prune" -> Len(next.enemies) < Len(w.enemies)
    [] what = "clear" ->
         /\ Len(next.enemies) > 0
         /\ next.enemies[1].y >= Px(2 * CONFIG[w.variant].enemyHeight)

\* whether the next frame is the one in which `what` happens
About(w, what) ==
  Brings(w, update([w EXCEPT !.log = <<>>], w.clock + FrameMs), what)

\* frames of FrameMs until the next one is the one in which `what` happens
RECURSIVE FramesUntil(_, _, _)
FramesUntil(w, what, limit) ==
  IF limit = 0 \/ ~w.gameState.isPlaying \/ About(w, what) THEN w
  ELSE FramesUntil(update([w EXCEPT !.log = <<>>], w.clock + FrameMs),
                   what, limit - 1)

\* n frames of FrameMs, n a few dozen at most
RECURSIVE Stretch(_, _)
Stretch(w, n) ==
  IF n = 0 \/ w.clock < 0 THEN w
  ELSE Stretch(update([w EXCEPT !.log = <<>>], w.clock + FrameMs), n - 1)

\* n frames of FrameMs, n around a thousand at most, a stretch at a time
RECURSIVE Leg(_, _)
Leg(w, n) ==
  IF w.clock < 0 \/ n = 0 THEN w
  ELSE Leg(Stretch(w, Min(n, 30)), n - Min(n, 30))

\* n frames of FrameMs, a leg at a time
RECURSIVE Cruise(_, _)
Cruise(w, n) ==
  IF w.clock < 0 \/ n = 0 THEN w
  ELSE Cruise(Leg(w, Min(n, 900)), n - Min(n, 900))

Step(w0, ev) ==
  LET w == [w0 EXCEPT !.log = <<>>]
  IN CASE ev.c = "togglePlayPause" -> togglePlayPause(w)
       [] ev.c = "restartGame" -> restartGame(w)
       [] ev.c = "moveLeft" -> moveLeft(w)
       [] ev.c = "moveRight" -> moveRight(w)
       [] ev.c = "countdown" -> countdownFire(w, ev.lane)
       [] ev.c = "spawnEnemy" -> spawnEnemy(w, ev.lane)
       [] ev.c = "spawnCoin" -> spawnCoin(w, ev.lane)
       [] ev.c = "spawnPowerUp" -> spawnPowerUp(w, FALSE, ev.lane, ev.type)
       [] ev.c = "frame" -> update(w, w.clock + ev.d)
       [] ev.c = "until" -> FramesUntil(w, ev.type, 400)
       [] ev.c = "frames" -> Cruise(w, ev.d)

RECURSIVE RunFrom(_, _, _)
RunFrom(w, script, k) ==
  IF k > Len(script) \/ w.clock < 0 THEN w
  ELSE RunFrom(Step(w, script[k]), script, k + 1)

Run(w, script) == RunFrom(w, script, 1)

Times(ev, n) == [k \in 1 .. n |-> ev]

\* press play and let the countdown run out
Begin == <<Ev("togglePlayPause")>> \o Times(EvLane("countdown", 1), 3)

\* press play twice, so that two countdowns run; the first one starts the game
BeginTwice ==
  <<Ev("togglePlayPause"), Ev("togglePlayPause")>> \o Times(EvLane("countdown", 1), 3)

----------------------------------------------------------------------------
(* Initial states: the constructed program, and states of a run reached by *)
(* the scripts below, each with the exploration it is given.               *)

Fuel(t, sp, m, c) == [ticks |-> t, spawns |-> sp, moves |-> m, cmds |-> c]

Types(v) == {POWER_UP_TYPES[v][k] : k \in 1 .. Len(POWER_UP_TYPES[v])}

\* an enemy in the player's lane one frame from the crash, a power-up in the
\* same lane and a coin in lane 0 on their way down
CrashScript ==
  Begin \o <<EvLane("spawnCoin", 2), EvLane("spawnEnemy", 2)>>
        \o Times(FrameAfter(FrameMs), 6)
        \o <<PowerUpIn(2, "DOUBLE_POINTS"), EvLane("spawnCoin", 0), Until("crash")>>

\* the same crash, in a game started by the first of two countdowns
OrphanScript == BeginTwice \o <<EvLane("spawnEnemy", 2), Until("crash")>>

\* Shield collected, an enemy in the player's lane one frame from overlapping
ShieldScript ==
  Begin \o <<PowerUpIn(2, "SHIELD")>> \o Times(FrameAfter(FrameMs), 3)
        \o <<EvLane("spawnEnemy", 2), Until("overlap")>>

\* four enemies in the other lanes, one frame apart; the first has just passed
DodgeScript(first) ==
  Begin \o first
        \o <<EvLane("spawnEnemy", 0), FrameAfter(FrameMs),
             EvLane("spawnEnemy", 1), FrameAfter(FrameMs),
             EvLane("spawnEnemy", 3), FrameAfter(FrameMs),
             EvLane("spawnEnemy", 4), Until("dodge"), FrameAfter(FrameMs)>>

\* a coin in the player's lane one frame from being collected
CoinScript(first) ==
  Begin \o first \o <<EvLane("spawnCoin", 2), Until("coin")>>

\* a run two frames short of the first 5000 px of distance
FirstLevelScript == Begin \o <<Frames(2897)>>

\* a run of some seven minutes, with currentSpeed near 13.8, two frames short
\* of 190000 px of distance
LongRunScript == Begin \o <<Frames(25639)>>

\* a second run, shorter than the first, with a coin collected, one frame from
\* its crash
SecondRunScript ==
  Begin \o <<Frames(300), EvLane("spawnEnemy", 2), Until("crash"),
             FrameAfter(FrameMs), Ev("restartGame")>>
        \o Times(EvLane("countdown", 1), 3)
        \o <<EvLane("spawnCoin", 2), EvLane("spawnEnemy", 2), Until("crash")>>

\* Shield collected and an enemy in the player's lane driven through, one
\* frame from having passed the player
ShieldPassScript == ShieldScript \o <<Until("dodge")>>

\* an enemy that has just passed the player, and two more, abreast, three
\* frames behind it
AbreastScript ==
  Begin \o <<EvLane("spawnEnemy", 0)>> \o Times(FrameAfter(FrameMs), 3)
        \o <<EvLane("spawnEnemy", 1), EvLane("spawnEnemy", 3),
             Until("dodge"), FrameAfter(FrameMs)>>

\* an enemy that has passed the player, one frame from leaving the screen
PruneScript == Begin \o <<EvLane("spawnEnemy", 0), Until("prune")>>

\* an enemy in lane 0, one frame from being 2 * enemyHeight down the screen
ClearScript == Begin \o <<EvLane("spawnEnemy", 0), Until("clear")>>

\* power-up a collected in the last frame, power-up b (if any) one frame behind
PowerScript(a, b) ==
  Begin \o <<PowerUpIn(2, a), FrameAfter(FrameMs)>>
        \o (IF b = Null THEN <<>> ELSE <<PowerUpIn(2, b)>>)
        \o <<Until("powerUp"), FrameAfter(FrameMs)>>

Scenarios(v) ==
  {[script |-> <<>>, fuel |-> Fuel(1, 0, 1, MaxCmds)],
   [script |-> Begin, fuel |-> Fuel(1, 0, MaxMoves, 0)],
   [script |-> Begin, fuel |-> Fuel(1, MaxSpawns, 0, 1)],
   [script |-> CrashScript, fuel |-> Fuel(MaxTicks - 1, 0, 1, 1)],
   [script |-> OrphanScript, fuel |-> Fuel(MaxTicks - 1, 0, 0, 2)],
   [script |-> ShieldScript, fuel |-> Fuel(MaxTicks, 0, 0, 0)],
   [script |-> CoinScript(<<>>), fuel |-> Fuel(MaxTicks - 1, 0, 0, 0)],
   [script |-> CoinScript(<<PowerUpIn(2, "DOUBLE_POINTS")>>
                            \o Times(FrameAfter(FrameMs), 3)),
    fuel |-> Fuel(MaxTicks - 1, 0, 0, 0)],
   [script |-> ShieldPassScript, fuel |-> Fuel(MaxTicks - 1, 0, 0, 0)],
   [script |-> AbreastScript, fuel |-> Fuel(MaxTicks, 0, 0, 0)],
   [script |-> PruneScript, fuel |-> Fuel(MaxTicks - 1, 0, 0, 0)],
   [script |-> ClearScript, fuel |-> Fuel(1, MaxSpawns, 0, 0)],
   [script |-> SecondRunScript, fuel |-> Fuel(MaxTicks - 1, 0, 0, 1)],
   [script |-> FirstLevelScript, fuel |-> Fuel(MaxTicks, 0, 0, 2)],
   [script |-> FirstLevelScript, fuel |-> Fuel(MaxTicks, MaxSpawns, 0, 0)],
   [script |-> LongRunScript, fuel |-> Fuel(1, MaxSpawns, 0, 0)],
   [script |-> LongRunScript, fuel |-> Fuel(MaxTicks, 0, 0, 2)],
   [script |-> DodgeScript(<<>>), fuel |-> Fuel(MaxTicks, 0, 0, 0)],
   [script |-> DodgeScript(<<PowerUpIn(2, "DOUBLE_POINTS")>>),
    fuel |-> Fuel(MaxTicks, 0, 0, 0)]}
  \cup {[script |-> PowerScript(a, b), fuel |-> Fuel(MaxTicks, 0, 0, 0)] :
          a \in Types(v), b \in Types(v) \cup {Null}}

Init ==
  \E v \in Variants : \E sc \in Scenarios(v) :
    Start(Run(Constructed(v, Epoch), sc.script), sc.fuel)

Spec == Init /\ [][Next]_vars

----------------------------------------------------------------------------
(* The geometry of the engine: checkCollision, checkCoinCollision,         *)
(* checkPowerUpCollision and getLaneX applied to inputs from bounded sets. *)
(* The player is where a run has put it; the other rectangle or circle is  *)
(* placed on a 1 px grid around it.                                        *)

Reach == 12          \* px beyond contact at which the other entity is placed
MaxWidth == 600      \* widest container, px

\* the player mid-way between lanes 1 and 2
SteeringScript == Begin \o <<Frames(1)>>

\* the player in lane 0
LeftLaneScript == Begin \o Times(Ev("moveLeft"), 2) \o <<Frames(60)>>

GeometryInit ==
  \E v \in Variants : \E script \in {<<>>, SteeringScript, LeftLaneScript} :
    Start(Run(Constructed(v, Epoch), script), Fuel(0, 0, 0, 0))

\* the function `op` applied, with its inputs and its result
Applied(op, e) ==
  /\ trace' = [op |-> op, log |-> <<e>>]
  /\ UNCHANGED <<variant, gameState, player, enemies, coins, powerUps,
                 inputState, timers, localStorage, clock, streak, ended, fuel>>

\* a state of the run, to which no function has been applied yet
Fresh == trace.op = "init"

\* top-left corners of an entity w by h px around the player, and the one
\* that centres it on the player
CornersX(w) ==
  {player.x + Px(d) : d \in -(w + Reach) .. (CONFIG[variant].playerWidth + Reach)}
    \cup {player.x + Px(CONFIG[variant].playerWidth - w) \div 2}
CornersY(h) ==
  {player.y + Px(d) : d \in -(h + Reach) .. (CONFIG[variant].playerHeight + Reach)}
    \cup {player.y + Px(CONFIG[variant].playerHeight - h) \div 2}

CheckCollision ==
  /\ Fresh
  /\ \E x \in CornersX(CONFIG[variant].enemyWidth),
     y \in CornersY(CONFIG[variant].enemyHeight) :
    LET b == [x |-> x, y |-> y]
    IN Applied("checkCollision",
               [e |-> "checkCollision", a |-> player, b |-> b,
                out |-> checkCollision(variant, player, b)])

CheckCoinCollision ==
  /\ Fresh
  /\ \E x \in CornersX(CONFIG[variant].coinSize),
     y \in CornersY(CONFIG[variant].coinSize) :
    LET coin == [x |-> x, y |-> y]
    IN Applied("checkCoinCollision",
               [e |-> "checkCoinCollision", a |-> player, b |-> coin,
                size |-> CONFIG[variant].coinSize,
                out |-> checkCoinCollision(variant, player, coin)])

CheckPowerUpCollision ==
  /\ Fresh
  /\ \E x \in CornersX(CONFIG[variant].powerUpSize),
     y \in CornersY(CONFIG[variant].powerUpSize) :
    LET powerUp == [x |-> x, y |-> y]
    IN Applied("checkPowerUpCollision",
               [e |-> "checkPowerUpCollision", a |-> player, b |-> powerUp,
                size |-> CONFIG[variant].powerUpSize,
                out |-> checkPowerUpCollision(variant, player, powerUp)])

\* resizeCanvas for a container clientWidth px wide, then getLaneX(lane)
GetLaneX ==
  /\ Fresh
  /\ \E clientWidth \in 1 .. MaxWidth, lane \in Lanes(variant) :
    Applied("getLaneX",
            [e |-> "getLaneX", width |-> clientWidth, lane |-> lane,
             laneWidth |-> resizeCanvas(variant, clientWidth),
             out |-> getLaneXAt(variant, resizeCanvas(variant, clientWidth), lane)])

GeometryNext ==
  \/ CheckCollision
  \/ CheckCoinCollision
  \/ CheckPowerUpCollision
  \/ GetLaneX

Geometry == GeometryInit /\ [][GeometryNext]_vars

----------------------------------------------------------------------------
(* The render loop left to itself: a run with entities on the screen and    *)
(* nothing but update passes, one frame interval apart, scheduled fairly    *)
(* for as long as the game is played and not paused.                       *)

LiveTicks == 240     \* update passes of a run left to itself

\* an enemy, a coin and a power-up on their way down beside the player
BesideScript ==
  Begin \o <<EvLane("spawnEnemy", 0), EvLane("spawnCoin", 1), PowerUpIn(3, "SHIELD"),
             FrameAfter(FrameMs), EvLane("spawnEnemy", 4)>>

\* a coin, a power-up and an enemy on their way down onto the player, and an
\* enemy beside it that is level with the player when the other one arrives
AheadScript ==
  Begin \o <<EvLane("spawnEnemy", 0), PowerUpIn(2, "DOUBLE_POINTS"),
             FrameAfter(FrameMs), EvLane("spawnCoin", 2)>>
        \o Times(FrameAfter(FrameMs), 20) \o <<EvLane("spawnEnemy", 2)>>

\* power-up `type` collected, then an enemy, coins and a power-up spawned
AfterScript(type) ==
  Begin \o <<PowerUpIn(2, type), Until("powerUp"), FrameAfter(FrameMs),
             EvLane("spawnEnemy", 2), EvLane("spawnCoin", 1),
             EvLane("spawnCoin", 2), PowerUpIn(0, "SHIELD")>>

LiveInit ==
  \E v \in Variants :
    \E script \in {BesideScript, AheadScript} \cup {AfterScript(type) : type \in Types(v)} :
      Start(Run(Constructed(v, Epoch), script), Fuel(LiveTicks, 0, 0, 0))

\* a frame of a run being played: render() calls update()
LiveFrame ==
  /\ gameState.isPlaying /\ ~gameState.isPaused
  /\ fuel.ticks > 0
  /\ Commit("update", update(World, clock + FrameMs), [fuel EXCEPT !.ticks = @ - 1])

LiveNext == LiveFrame

\* what a frame of a run being played does to fuel; as the frames are the
\* only steps, a step is a LiveFrame step exactly if it is a FrameDue step
FrameDue ==
  /\ gameState.isPlaying /\ ~gameState.isPaused
  /\ fuel.ticks > 0
  /\ fuel' = [fuel EXCEPT !.ticks = @ - 1]

\* requestAnimationFrame keeps calling render: a frame that stays due is run
LiveSpec == LiveInit /\ [][LiveNext]_vars /\ WF_fuel(FrameDue)

----------------------------------------------------------------------------
(* Properties *)

Events(kind) == {k \in 1 .. Len(trace.log) : trace.log[k].e = kind}

AllTypes == {"SHIELD", "MAGNET", "SLOW_MO", "DOUBLE_POINTS", "NITRO"}

Flag(gs, type) ==
  CASE type = "SHIELD" -> gs.hasShield
    [] type = "MAGNET" -> gs.hasMagnet
    [] type = "SLOW_MO" -> gs.hasSlowMo
    [] type = "DOUBLE_POINTS" -> gs.hasDoublePoints
    [] type = "NITRO" -> gs.hasNitro

Flags(gs) == {type \in AllTypes : Flag(gs, type)}

Exclusive(gs) ==
  /\ Cardinality(Flags(gs)) <= 1
  /\ gs.activePowerUp = Null <=> Flags(gs) = {}
  /\ gs.activePowerUp # Null => Flags(gs) = {gs.activePowerUp}

\* C1: in every reachable state of both variants at most one power-up flag is
\* true, activePowerUp is null exactly when none is, and otherwise the true
\* flag is the one of activePowerUp; every collectPowerUp of a type B, also
\* while another type A is active, leaves exactly B's flag true and
\* activePowerUp = B.
C1_PowerUpExclusive ==
  /\ Exclusive(gameState)
  /\ variant = "base" => ~gameState.hasNitro
  /\ \A k \in Events("collectPowerUp") :
       /\ Exclusive(trace.log[k].after)
       /\ trace.log[k].after.activePowerUp = trace.log[k].type

\* a power-up of another type was collected while one was active
C1_Witness ==
  \E k \in Events("collectPowerUp") :
    /\ trace.log[k].before.activePowerUp # Null
    /\ trace.log[k].before.activePowerUp # trace.log[k].type
    /\ gameState.activePowerUp = trace.log[k].type

\* the tick in which gameOver ran: the state at the call, for each call
CrashTicks == IF trace.op = "update" THEN Events("gameOver") ELSE {}

PowerUpState(gs) ==
  <<gs.hasShield, gs.hasMagnet, gs.hasSlowMo, gs.hasDoublePoints, gs.hasNitro,
    gs.activePowerUp>>

\* C2: in the update tick in which an unshielded collision is detected and
\* gameOver runs, score, coins, combo, the power-up flags and activePowerUp,
\* the coin store and the power-up store at the end of the tick equal their
\* values at the moment gameOver was called.
C2_NoUpdateAfterGameOver ==
  \A k \in CrashTicks :
    LET at == trace.log[k]
    IN /\ gameState.score = at.gameState.score
       /\ gameState.coins = at.gameState.coins
       /\ gameState.combo = at.gameState.combo
       /\ PowerUpState(gameState) = PowerUpState(at.gameState)
       /\ coins = at.coins
       /\ powerUps = at.powerUps

\* what the crash tick does keep: the run is over, and the enemy store, the
\* dodge count and the saved totals are those of the moment gameOver was called
C2_CrashTickKeeps ==
  \A k \in CrashTicks :
    LET at == trace.log[k]
    IN /\ gameState.isGameOver /\ ~gameState.isPlaying
       /\ enemies = at.enemies
       /\ gameState.dodgedCars = at.gameState.dodgedCars
       /\ gameState.totalCoins = at.gameState.totalCoins
       /\ gameState.topScore = at.gameState.topScore
       /\ gameState.score > at.gameState.score

\* a crash tick in which the score grew and the coins and power-ups on the
\* road moved on after gameOver had run
C2_Witness ==
  \E k \in CrashTicks :
    /\ gameState.score > trace.log[k].gameState.score
    /\ coins # trace.log[k].coins
    /\ powerUps # trace.log[k].powerUps

GameIsOver == gameState.isGameOver /\ ~gameState.isPlaying

\* the handler of the step is a restart command: restartGame, or
\* togglePlayPause, which restarts when the game is over
RestartCommand == trace'.op \in {"restartGame", "togglePlayPause"}

RunKept ==
  /\ gameState'.score = gameState.score
  /\ gameState'.coins = gameState.coins
  /\ gameState'.distance = gameState.distance
  /\ gameState'.totalCoins = gameState.totalCoins
  /\ UNCHANGED <<enemies, coins, powerUps>>

\* C3: once the game is over (isGameOver true, isPlaying false) it stays over,
\* and score, coins, distance, totalCoins and the entity stores stay as they
\* are, over every step of a frame, a spawner timer or a countdown timer,
\* until a restart command is issued.
C3_GameOverTerminal ==
  [][GameIsOver /\ ~RestartCommand => GameIsOver' /\ RunKept]_vars

\* what holds instead: game over is terminal as long as no countdown timer is
\* alive
C3_TerminalWithoutCountdown ==
  [][GameIsOver /\ Live(timers, "countdown") = {} /\ ~RestartCommand
       => GameIsOver' /\ RunKept]_vars

\* the start callback of a countdown ran on a game that was over
C3_Witness ==
  /\ trace.op = "countdown"
  /\ \E k \in Events("start") : trace.log[k].before.isGameOver
  /\ gameState.isPlaying /\ ~gameState.isGameOver

Paused == gameState.isPlaying /\ gameState.isPaused

ResumeCommand == trace'.op \in {"restartGame", "togglePlayPause"}

\* C8: after pauseGame, isPaused stays true, no spawner timer is alive, and
\* score, distance, currentSpeed, combo, the power-up flags and the entity
\* stores are unchanged, over every step of a frame or a timer callback,
\* countdown timers started earlier included, until togglePlayPause (which
\* resumes) or restartGame is invoked.
C8_PauseHolds ==
  [][Paused /\ ~ResumeCommand =>
       /\ Paused'
       /\ \A kind \in SpawnerKinds : Live(timers', kind) = {}
       /\ gameState'.score = gameState.score
       /\ gameState'.distance = gameState.distance
       /\ gameState'.currentSpeed = gameState.currentSpeed
       /\ gameState'.combo = gameState.combo
       /\ PowerUpState(gameState') = PowerUpState(gameState)
       /\ UNCHANGED <<enemies, coins, powerUps>>]_vars

\* what holds instead: the pause holds as long as no countdown timer is alive
C8_HoldsWithoutCountdown ==
  [][Paused /\ Live(timers, "countdown") = {} /\ ~ResumeCommand =>
       /\ Paused'
       /\ \A kind \in SpawnerKinds : Live(timers', kind) = {}
       /\ gameState' = gameState
       /\ UNCHANGED <<enemies, coins, powerUps, player, inputState>>]_vars

\* the start callback of a countdown ran on a paused game
C8_Witness ==
  /\ trace.op = "countdown"
  /\ \E k \in Events("start") :
       trace.log[k].before.isPaused /\ trace.log[k].before.isPlaying
  /\ ~gameState.isPaused
  /\ \A kind \in SpawnerKinds : Live(timers, kind) # {}

\* the enemy checks of the last update pass in which the enemy overlapped the
\* player while the shield was up
ShieldedOverlaps ==
  {k \in Events("enemy") : trace.log[k].hasShield /\ trace.log[k].hit}

InStore(enemy) ==
  \E i \in 1 .. Len(enemies) : enemies[i].x = enemy.x /\ enemies[i].y = enemy.y

\* C4: an enemy that overlaps the player when it is checked in updateEnemies
\* while hasShield is true does not end the run and stays in the enemy store
\* (it is pruned only once it has left the bottom of the screen); gameOver is
\* invoked from an update pass only right after a check that found hasShield
\* false and the enemy overlapping.
C4_ShieldPassThrough ==
  /\ \A k \in ShieldedOverlaps :
       /\ CrashTicks = {}
       /\ gameState.isPlaying /\ ~gameState.isGameOver
       /\ InStore(trace.log[k].enemy)
  /\ \A k \in CrashTicks :
       /\ k > 1
       /\ trace.log[k - 1].e = "enemy"
       /\ ~trace.log[k - 1].hasShield
       /\ trace.log[k - 1].hit
  /\ \A k \in Events("enemy") :
       trace.log[k].enemy.y <= Px(canvasHeight) + Px(CONFIG[variant].enemyHeight)
         => InStore(trace.log[k].enemy)

\* an update pass with the shield up in which an enemy overlapped the player
C4_Witness ==
  /\ trace.op = "update"
  /\ ShieldedOverlaps # {}
  /\ gameState.hasShield

\* the dodges of a streak count 1, 2, 3, ...
StreakCounts == \A k \in 1 .. Len(streak) : streak[k].combo = k

RECURSIVE Awarded(_, _)
Awarded(s, n) == IF n = 0 THEN 0 ELSE s[n].award + Awarded(s, n - 1)

\* C5: handleDodge at clock time t sets combo to combo + 1 if
\* t - lastDodgeTime < 2000 and to 1 otherwise, sets lastDodgeTime to t and adds
\* 50 * combo (the new value) to score, twice that under DoublePoints; so the
\* third dodge of a streak that began from a lapsed one leaves combo = 3 with
\* 300 points awarded over the streak (600 when all three were doubled), and
\* a dodge 2000 ms or more after the previous one leaves combo = 1 and awards 50
\* (100 when doubled).
C5_HandleDodge ==
  /\ \A k \in Events("handleDodge") :
       LET d == trace.log[k]
           lapsed == d.now - d.before.lastDodgeTime >= 2000
           mult == IF d.before.hasDoublePoints THEN 2 ELSE 1
       IN /\ d.after.combo = IF lapsed THEN 1 ELSE d.before.combo + 1
          /\ d.after.lastDodgeTime = d.now
          /\ d.after.score = d.before.score + 50 * d.after.combo * mult
          /\ d.award = 50 * d.after.combo * mult
          /\ lapsed => d.award = 50 * mult
  /\ StreakCounts
  /\ Len(streak) >= 3 /\ (\A k \in 1 .. 3 : ~streak[k].doubled)
       => Awarded(streak, 3) = 300
  /\ Len(streak) >= 3 /\ (\A k \in 1 .. 3 : streak[k].doubled)
       => Awarded(streak, 3) = 600
  /\ Events("handleDodge") # {} /\ Len(streak) = 3 => gameState.combo = 3

\* a fourth dodge 2001 ms after the third of a streak of three, which set combo
\* to 1
C5_Witness ==
  \E k \in Events("handleDodge") :
    /\ trace.log[k].before.combo = 3
    /\ trace.log[k].now - trace.log[k].before.lastDodgeTime = 2001
    /\ trace.log[k].after.combo = 1
    /\ trace.log[k].award = 50

LastLane == CONFIG[variant].lanes - 1

\* C6: inputState.targetLane is within 0 .. lanes - 1 in every reachable
\* state, whatever the sequence of moveLeft, moveRight, start, pause, resume
\* and restart; a moveLeft at lane 0 and a moveRight at the last lane leave it
\* where it is.
C6_TargetLaneInRange ==
  /\ inputState.targetLane \in 0 .. LastLane
  /\ \A k \in Events("moveLeft") :
       trace.log[k].from = 0 => inputState.targetLane = 0
  /\ \A k \in Events("moveRight") :
       trace.log[k].from = LastLane => inputState.targetLane = LastLane

\* moveRight ran in a playing game with the target already in the last lane
C6_Witness ==
  /\ Active(World)
  /\ \E k \in Events("moveRight") : trace.log[k].from = LastLane
  /\ inputState.targetLane = LastLane

GatedHandlers ==
  {"moveLeft", "moveRight", "spawnEnemy", "spawnCoin", "spawnPowerUp", "update"}

\* C7: where isPlaying is false or isPaused is true, each of moveLeft,
\* moveRight, spawnEnemy, spawnCoin, spawnPowerUp and update changes nothing:
\* targetLane, every field of gameState, the player and the three entity
\* stores are the same after the call.
C7_GatedHandlersNoOp ==
  [][~Active(World) /\ trace'.op \in GatedHandlers
       => UNCHANGED <<inputState, gameState, player, enemies, coins, powerUps>>]_vars

\* an update pass ran on a paused game with enemies on the road
C7_Witness ==
  /\ trace.op = "update"
  /\ gameState.isPlaying /\ gameState.isPaused
  /\ Len(enemies) > 0

SpawnersAlive(w) == {kind \in SpawnerKinds : Live(w.timers, kind) # {}}

SameGame(a, b) ==
  /\ a.gameState = b.gameState
  /\ a.enemies = b.enemies /\ a.coins = b.coins /\ a.powerUps = b.powerUps
  /\ SpawnersAlive(a) = SpawnersAlive(b)

\* C9: from a playing state, pauseGame called twice in a row leaves the same
\* gameState, entity stores and set of live spawner timers (none) as
\* pauseGame called once; and a further pauseGame right after one that ran
\* changes none of them.
C9_PauseIdempotent ==
  /\ Active(World) =>
       /\ SameGame(pauseGame(pauseGame(World)), pauseGame(World))
       /\ SpawnersAlive(pauseGame(World)) = {}
       /\ pauseGame(World).gameState.isPaused
  /\ Events("pauseGame") # {} =>
       /\ SameGame(pauseGame(World), World)
       /\ SpawnersAlive(World) = {}

\* pauseGame has just run on a game with enemies on the road
C9_Witness ==
  /\ Events("pauseGame") # {}
  /\ gameState.isPaused /\ gameState.isPlaying
  /\ Len(enemies) > 0

\* the expiry polls of the last update pass
Polls == IF trace.op = "update" THEN Events("poll") ELSE {}

\* C10: expiry is polled once in every completed update pass; at the end of a
\* pass whose clock reading is greater than powerUpEndTime no power-up is
\* active (activePowerUp is null and every flag is false), and a pass whose
\* reading is not greater than powerUpEndTime leaves the power-up that is
\* active at its poll active.
C10_ExpiryPolled ==
  /\ trace.op = "update" /\ Events("updated") # {} => Cardinality(Polls) = 1
  /\ \A k \in Polls :
       LET poll == trace.log[k]
       IN /\ poll.now = clock
          /\ poll.now > gameState.powerUpEndTime
               => gameState.activePowerUp = Null /\ Flags(gameState) = {}
          /\ poll.activePowerUp # Null /\ poll.now <= poll.powerUpEndTime
               => /\ gameState.activePowerUp = poll.activePowerUp
                  /\ Flags(gameState) = {poll.activePowerUp}

\* an update pass found the Shield past its end time and took it away
C10_Witness ==
  \E k \in Polls :
    /\ trace.log[k].activePowerUp = "SHIELD"
    /\ trace.log[k].now > trace.log[k].powerUpEndTime
    /\ gameState.activePowerUp = Null
    /\ ~gameState.hasShield

RECURSIVE Sum(_, _)
Sum(f, S) == IF S = {} THEN 0
             ELSE LET x == CHOOSE x \in S : TRUE IN f[x] + Sum(f, S \ {x})

CoinChecks == IF trace.op = "update" THEN Events("coin") ELSE {}
CoinsTaken == IF trace.op = "update" THEN Events("collectCoin") ELSE {}

\* C11: every coin that updateCoins finds colliding with the player is
\* collected exactly once: collectCoin runs once for it, adding value to coins
\* and 10 * value to score, with value = coinValue, or twice that while
\* hasDoublePoints, and the coin leaves the store in the same pass.
C11_CoinCollectedOnce ==
  /\ \A k \in CoinsTaken :
       LET take == trace.log[k]
       IN /\ take.value = (IF take.before.hasDoublePoints THEN 2 ELSE 1)
                            * CONFIG[variant].coinValue
          /\ take.after.coins = take.before.coins + take.value
          /\ take.after.score = take.before.score + 10 * take.value
          /\ k > 1 /\ trace.log[k - 1].e = "coin" /\ trace.log[k - 1].hit
  /\ \A k \in CoinChecks :
       trace.log[k].hit => trace.log[k + 1].e = "collectCoin"
  /\ \A k \in (IF trace.op = "update" THEN Events("updateCoins") ELSE {}) :
       LET pass == trace.log[k]
           hits == {j \in CoinChecks : trace.log[j].hit}
           gone == {j \in CoinChecks : ~trace.log[j].hit /\ trace.log[j].left}
       IN /\ pass.kept = pass.stored - Cardinality(hits) - Cardinality(gone)
          /\ pass.after.coins = pass.before.coins
               + Sum([j \in CoinsTaken |-> trace.log[j].value], CoinsTaken)
          /\ Cardinality(CoinsTaken) = Cardinality(hits)
          /\ Cardinality(CoinChecks) = pass.stored

\* a coin was collected under DoublePoints and left the store
C11_Witness ==
  /\ \E k \in CoinsTaken :
       trace.log[k].before.hasDoublePoints /\ trace.log[k].value = 20
  /\ coins = <<>>

\* the completed update pass of the last step, if it was one
Passes == IF trace.op = "update" THEN Events("updated") ELSE {}

DodgesMade == IF trace.op = "update" THEN Events("handleDodge") ELSE {}

\* what the coins collected and the dodges made in the last pass added to score
PickupScore ==
  Sum([j \in CoinsTaken |-> 10 * trace.log[j].value], CoinsTaken)
    + Sum([j \in DodgesMade |-> trace.log[j].award], DodgesMade)

\* floor(currentSpeed * timeDelta * factor10 / 10), timeDelta in halves
FloorSpeed(speed, halves, factor10) ==
  (speed * halves * factor10) \div (2 * 10 * SpeedUnit)

Halves(gs) == IF gs.hasSlowMo THEN 1 ELSE 2

\* C12, as claimed: every completed update pass adds
\* floor(currentSpeed * timeDelta) to score as continuous scoring, with
\* timeDelta 0.5 under SlowMo and 1 otherwise, and in the extended engine
\* timeDelta times the Nitro factor 1.8 while Nitro is active.
C12_ContinuousScoringNitroFactor ==
  \A k \in Passes :
    LET was == trace.log[k].before
    IN gameState.score - was.score - PickupScore
         = FloorSpeed(gameState.currentSpeed, Halves(was),
                      IF was.hasNitro THEN 18 ELSE 10)

\* C12, amended: every completed update pass adds floor(currentSpeed *
\* timeDelta) to score as continuous scoring, with timeDelta 0.5 under SlowMo
\* and 1 otherwise; in the extended engine a pass that starts with Nitro
\* active adds floor(10 * timeDelta) more, and the Nitro factor 1.8 multiplies
\* the distance covered, not the score.
C12_ContinuousScoring ==
  \A k \in Passes :
    LET was == trace.log[k].before
    IN /\ gameState.score - was.score - PickupScore
            = FloorSpeed(gameState.currentSpeed, Halves(was), 10)
                + (IF was.hasNitro THEN (10 * Halves(was)) \div 2 ELSE 0)
       /\ gameState.currentSpeed = was.currentSpeed + 1
       /\ (gameState.distance.px - was.distance.px) * DistUnit
            + gameState.distance.frac - was.distance.frac
            = (gameState.currentSpeed * Halves(was)
                 * (IF was.hasNitro THEN 18 ELSE 10)) \div 2

\* an update pass with Nitro active completed
C12_Witness ==
  \E k \in Passes : trace.log[k].before.hasNitro /\ variant = "ext"

LevelOf(gs) == gs.distance.px \div CONFIG[variant].difficultyIncreaseInterval + 1

\* C13: after every update pass difficultyLevel is
\* floor(distance / difficultyIncreaseInterval) + 1, whatever the distance
\* covered in the pass; so in a run from currentSpeed = 1 and distance = 0,
\* difficultyLevel is 2 once distance has crossed 5000.
C13_DifficultyIsStep ==
  Passes # {} => gameState.difficultyLevel = LevelOf(gameState)

\* what holds instead: a pass that covers less than 10 px keeps
\* difficultyLevel = floor(distance / difficultyIncreaseInterval) + 1
C13_StepWhileSlow ==
  \A k \in Passes :
    LET was == trace.log[k].before
        covered == (gameState.distance.px - was.distance.px) * DistUnit
                     + gameState.distance.frac - was.distance.frac
    IN was.difficultyLevel = LevelOf(was) /\ covered < 10 * DistUnit
         => gameState.difficultyLevel = LevelOf(gameState)

\* the pass that took distance over 5000 for the first time set the level to 2
C13_FirstLevel ==
  /\ \E k \in Passes : trace.log[k].before.distance.px < 5000
  /\ gameState.distance.px = 5000
  /\ gameState.difficultyLevel = 2

\* a pass that covered 13.8 px took distance from below 190000 to above 190010
\* and left difficultyLevel at 38
C13_Witness ==
  /\ \E k \in Passes : trace.log[k].before.distance.px < 190000
  /\ gameState.distance.px >= 190010
  /\ gameState.difficultyLevel = 38

\* the last step ran restartGame (the restart button, or play/pause on the
\* game-over screen)
Restarted == \E k \in 1 .. Len(trace'.log) : trace'.log[k].e = "restartGame"

NotBehind(a, b) == a.px < b.px \/ (a.px = b.px /\ a.frac <= b.frac)

\* C14: across every step other than restartGame, score, distance and
\* currentSpeed never decrease, and score is a non-negative integer;
\* currentSpeed strictly increases on every effective update pass.
C14_Monotone ==
  [][/\ gameState'.score \in Nat
     /\ ~Restarted =>
          /\ gameState'.score >= gameState.score
          /\ NotBehind(gameState.distance, gameState'.distance)
          /\ gameState'.currentSpeed >= gameState.currentSpeed
     /\ (trace'.op = "update" /\ gameState.isPlaying /\ ~gameState.isPaused)
          => gameState'.currentSpeed > gameState.currentSpeed]_vars

\* an update pass late in a long run completed, and score, distance and
\* currentSpeed all grew in it
C14_Witness ==
  \E k \in Passes :
    LET was == trace.log[k].before
    IN /\ was.currentSpeed > 13 * SpeedUnit
       /\ gameState.score = was.score + 13
       /\ gameState.currentSpeed > was.currentSpeed
       /\ ~NotBehind(gameState.distance, was.distance)

\* the calls of gameOver in the last step
GameOvers == {k \in 1 .. Len(trace'.log) : trace'.log[k].e = "gameOver"}

\* C15: the persisted top score and lifetime coin total never decrease
\* across a step, except that resetTopScore sets the top score to 0; gameOver
\* sets topScore to max(topScore, score) and totalCoins to totalCoins + coins;
\* and after a step that wrote them the persisted values equal
\* gameState.topScore and gameState.totalCoins.
C15_PersistedMonotone ==
  [][/\ localStorage'.hydraTotalCoins >= localStorage.hydraTotalCoins
     /\ IF trace'.op = "resetTopScore"
        THEN localStorage'.hydraTopScore = 0 /\ gameState'.topScore = 0
        ELSE localStorage'.hydraTopScore >= localStorage.hydraTopScore
     /\ \A k \in GameOvers :
          LET ev == trace'.log[k]
          IN /\ ev.gameState.topScore = Max(ev.before.topScore, ev.before.score)
             /\ ev.gameState.totalCoins = ev.before.totalCoins + ev.before.coins
             /\ ev.stored.hydraTopScore = ev.gameState.topScore
             /\ ev.stored.hydraTotalCoins = ev.gameState.totalCoins
     /\ (GameOvers # {} \/ trace'.op = "resetTopScore")
          => /\ localStorage'.hydraTopScore = gameState'.topScore
             /\ localStorage'.hydraTotalCoins = gameState'.totalCoins]_vars

\* a second run ended with a lower score than the first: the top score was
\* kept and the coins of the run were added to the total
C15_Witness ==
  \E k \in CrashTicks :
    LET ev == trace.log[k]
    IN /\ ev.before.score < ev.before.topScore
       /\ ev.before.coins > 0
       /\ localStorage.hydraTopScore = ev.before.topScore
       /\ localStorage.hydraTotalCoins = ev.before.totalCoins + ev.before.coins

\* the applications of a geometry function in the last step
Applications(op) == IF trace.op = op THEN Events(op) ELSE {}

\* the rectangle at (x, y), w by h px, shrunk inwards by `by` px on every side
Shrunk(at, w, h, by) ==
  [left |-> at.x + Px(by), right |-> at.x + Px(w - by),
   top |-> at.y + Px(by), bottom |-> at.y + Px(h - by)]

Overlap(r, s) ==
  /\ r.left < s.right /\ s.left < r.right
  /\ r.top < s.bottom /\ s.top < r.bottom

PlayerBox(at, by) ==
  Shrunk(at, CONFIG[variant].playerWidth, CONFIG[variant].playerHeight, by)

EnemyBox(at, by) ==
  Shrunk(at, CONFIG[variant].enemyWidth, CONFIG[variant].enemyHeight, by)

\* C16, as claimed: checkCollision(player, enemy) is true exactly when the
\* two rectangles, each shrunk inwards by 10 px on all four sides, overlap.
C16_BothShrunk ==
  \A k \in Applications("checkCollision") :
    LET ev == trace.log[k]
    IN ev.out <=> Overlap(PlayerBox(ev.a, 10), EnemyBox(ev.b, 10))

\* C16, amended: checkCollision(player, enemy) is true exactly when the
\* player rectangle overlaps the enemy rectangle shrunk inwards by 10 px on
\* all four sides; the padding is applied to one rectangle (either one), not
\* to both.
C16_OneShrunk ==
  \A k \in Applications("checkCollision") :
    LET ev == trace.log[k]
    IN /\ ev.out <=> Overlap(PlayerBox(ev.a, 0), EnemyBox(ev.b, 10))
       /\ ev.out <=> Overlap(PlayerBox(ev.a, 10), EnemyBox(ev.b, 0))

\* a collision reported for an enemy 15 px into the player from above and
\* level with it sideways: the rectangles shrunk by 10 px each are 5 px apart
C16_Witness ==
  \E k \in Applications("checkCollision") :
    LET ev == trace.log[k]
    IN /\ ev.out
       /\ ev.b.x = ev.a.x
       /\ ev.b.y + Px(CONFIG[variant].enemyHeight) = ev.a.y + Px(15)
       /\ ~Overlap(PlayerBox(ev.a, 10), EnemyBox(ev.b, 10))

\* the gap between two boxes along one axis (negative when they overlap)
Gap(lo1, hi1, lo2, hi2) == Max(lo2 - hi1, lo1 - hi2)

\* C17: for rectangles of the configured car dimensions, checkCollision(a, b)
\* is true whenever a and b have identical bounding boxes, and false whenever
\* a and b are separated by at least 10 px on every axis.
C17_IdenticalAndSeparated ==
  \A k \in Applications("checkCollision") :
    LET ev == trace.log[k]
        a == PlayerBox(ev.a, 0)
        b == EnemyBox(ev.b, 0)
    IN /\ a = b => ev.out
       /\ (/\ Gap(a.left, a.right, b.left, b.right) >= Px(10)
           /\ Gap(a.top, a.bottom, b.top, b.bottom) >= Px(10)) => ~ev.out

\* checkCollision applied to an enemy in the very place of the player
C17_Witness ==
  \E k \in Applications("checkCollision") :
    trace.log[k].out /\ PlayerBox(trace.log[k].a, 0) = EnemyBox(trace.log[k].b, 0)

\* checkCollision applied to an enemy 10 px clear of the player on both axes
C17_WitnessApart ==
  \E k \in Applications("checkCollision") :
    LET a == PlayerBox(trace.log[k].a, 0)
        b == EnemyBox(trace.log[k].b, 0)
    IN ~trace.log[k].out /\ b.left = a.right + Px(10) /\ b.top = a.bottom + Px(10)

\* how far the point c lies outside the interval lo .. hi (0 when inside)
Outside(c, lo, hi) == Max(0, Max(lo - c, c - hi))

Pickups == Applications("checkCoinCollision") \cup Applications("checkPowerUpCollision")

\* C18: checkCoinCollision and checkPowerUpCollision are true exactly when
\* the squared distance from the centre of the pickup to the closest point of
\* the player rectangle is strictly less than (size/2)^2; so a pickup centred
\* on the centre of the player is collected, and one whose centre is at the
\* radius or more outside the nearest edge of the player is not.
C18_CircleAgainstPlayer ==
  \A k \in Pickups :
    LET ev == trace.log[k]
        r == Px(ev.size) \div 2
        box == PlayerBox(ev.a, 0)
        cx == ev.b.x + r
        cy == ev.b.y + r
        ox == Outside(cx, box.left, box.right)
        oy == Outside(cy, box.top, box.bottom)
    IN /\ ev.out <=> ox * ox + oy * oy < r * r
       /\ (2 * cx = box.left + box.right /\ 2 * cy = box.top + box.bottom)
            => ev.out
       /\ (ox >= r \/ oy >= r) => ~ev.out

\* a coin whose centre is exactly its radius to the left of the player, level
\* with it, is not collected
C18_Witness ==
  \E k \in Applications("checkCoinCollision") :
    LET ev == trace.log[k]
        r == Px(ev.size) \div 2
    IN /\ ~ev.out
       /\ ev.b.x + r = ev.a.x - r
       /\ ev.b.y = ev.a.y

\* a power-up off the corner of the player, nearer than its radius on each
\* axis but not in the diagonal, is not collected
C18_WitnessCorner ==
  \E k \in Applications("checkPowerUpCollision") :
    LET ev == trace.log[k]
        r == Px(ev.size) \div 2
        box == PlayerBox(ev.a, 0)
        ox == Outside(ev.b.x + r, box.left, box.right)
        oy == Outside(ev.b.y + r, box.top, box.bottom)
    IN ~ev.out /\ 0 < ox /\ ox < r /\ 0 < oy /\ oy < r

\* a coin centred on the centre of the player is collected
C18_WitnessCentred ==
  \E k \in Applications("checkCoinCollision") :
    LET ev == trace.log[k]
        r == Px(ev.size) \div 2
        box == PlayerBox(ev.a, 0)
    IN /\ ev.out
       /\ 2 * (ev.b.x + r) = box.left + box.right
       /\ 2 * (ev.b.y + r) = box.top + box.bottom

StartFired == trace'.op = "countdown" /\ \E k \in 1 .. Len(trace'.log) : trace'.log[k].e = "start"

\* the start callback took the game from not playing into play and left no
\* countdown interval behind
OneTransition ==
  /\ ~gameState.isPlaying
  /\ gameState'.isPlaying /\ ~gameState'.isPaused /\ ~gameState'.isGameOver
  /\ SpawnersAlive([timers |-> timers']) = SpawnerKinds
  /\ Live(timers', "countdown") = {}

\* C20: each start or restart command leads to exactly one transition into
\* the playing state: whenever the start callback of showCountdown fires, the
\* game was not playing, is playing afterwards with its spawners started, and
\* no countdown interval is alive any more, so the callback does not fire
\* again without a new command; also when startGame was invoked again while
\* an earlier countdown was running.
C20_OneStartPerCommand ==
  [][StartFired => OneTransition]_vars

\* every live countdown interval is the one countdownInterval names
NoOrphan == \A i \in Live(timers, "countdown") : timers[i].held

\* what holds instead: it is so when the only countdown interval alive as the
\* callback fired was the one countdownInterval names
C20_OneStartPerCountdown ==
  [][StartFired /\ NoOrphan => OneTransition]_vars

\* the start callback has fired and a countdown interval is still alive
C20_Witness ==
  /\ trace.op = "countdown"
  /\ Events("start") # {}
  /\ Live(timers, "countdown") # {}
  /\ gameState.isPlaying

\* C21: gameOver executes at most once per run: between two restart
\* commands the coins of the run are added to totalCoins at most once and the
\* top score is written at most once, whatever the interleaving of frames
\* and timer callbacks.
C21_GameOverOncePerRun == ended <= 1

\* what holds instead: it is so as long as no countdown interval has been
\* orphaned
C21_OncePerRunWithoutOrphan == NoOrphan => ended <= 1

\* gameOver has run twice in one run, and each time it stored a new top score
\* and added the coins of the run
C21_Witness ==
  /\ ended = 2
  /\ \E k \in CrashTicks :
       /\ trace.log[k].before.isGameOver = FALSE
       /\ trace.log[k].before.topScore > 0
       /\ trace.log[k].gameState.topScore > trace.log[k].before.topScore

TopScoreCovers(gs) == gs.topScore >= gs.score

\* C22: in every state with isGameOver true and no resetTopScore since the
\* crash, topScore >= score.  Step by step: a step other than resetTopScore
\* that ends in a game-over state ends with topScore >= score, if it began
\* outside game over or began with topScore >= score.
C22_TopScoreCoversFinalScore ==
  [][(/\ gameState'.isGameOver
      /\ trace'.op # "resetTopScore"
      /\ gameState.isGameOver => TopScoreCovers(gameState))
       => TopScoreCovers(gameState')]_vars

\* what holds instead: as gameOver returns, topScore >= score
C22_TopScoreCoversScoreAtCrash ==
  \A k \in Events("gameOver") : TopScoreCovers(trace.log[k].gameState)

\* the pass of the crash is over: gameOver stored the score of the run as the
\* top score, and the end of the pass added to score
C22_Witness ==
  /\ gameState.isGameOver
  /\ \E k \in CrashTicks :
       /\ trace.log[k].gameState.topScore = trace.log[k].gameState.score
       /\ gameState.topScore = trace.log[k].gameState.topScore
  /\ gameState.score > gameState.topScore

\* C23: the lifecycle flags are consistent in every reachable state:
\* isPaused implies isPlaying, and isGameOver implies not isPlaying.
C23_FlagsConsistent ==
  /\ gameState.isPaused => gameState.isPlaying
  /\ gameState.isGameOver => ~gameState.isPlaying

\* the start callback of a countdown fired on a paused game and left it
\* playing and not paused
C23_Witness ==
  /\ trace.op = "countdown"
  /\ \E k \in Events("start") : trace.log[k].before.isPaused
  /\ gameState.isPlaying /\ ~gameState.isPaused

\* a game over reached from play
C23_WitnessOver ==
  /\ CrashTicks # {}
  /\ gameState.isGameOver /\ ~gameState.isPlaying /\ ~gameState.isPaused

\* the indices of the events `kind` in the log of the step being taken
Did(kind) == {k \in 1 .. Len(trace'.log) : trace'.log[k].e = kind}

\* the enemy of event k was seen below the player in the step being taken
Below(k) ==
  trace'.log[k].enemy.y > player'.y + Px(CONFIG[variant].playerHeight)

\* event k of the step being taken is the dodge of the enemy of event k - 1
DodgeOf(k) == k \in Did("handleDodge") /\ k - 1 \in Did("enemy")

C24_WitnessPruned ==
  /\ trace.op = "update"
  /\ \E k \in Events("enemy") :
       /\ trace.log[k].enemy.y > Px(canvasHeight + CONFIG[variant].enemyHeight)
       /\ trace.log[k].enemy.passed
       /\ ~InStore(trace.log[k].enemy)

\* C25: a dodge is awarded only for an enemy that never overlapped the
\* player: the enemy handleDodge is called for was not in collision with the
\* player in any pass of its lifetime, passes under Shield included.
C25_DodgeOnlyUntouched ==
  \A k \in DodgesMade :
    /\ k - 1 \in Events("enemy")
    /\ ~trace.log[k - 1].enemy.touched

\* C25, what the code keeps: the enemy handleDodge is called for does not
\* overlap the player in the pass that awards the dodge, and no pass in which
\* an enemy overlaps the player without Shield awards a dodge for it.
C25_DodgeNotWhileOverlapping ==
  \A k \in DodgesMade :
    /\ k - 1 \in Events("enemy")
    /\ ~trace.log[k - 1].hit
    /\ ~trace.log[k - 1].enemy.passed

\* an enemy driven through under Shield is scored as a dodge
C25_Witness ==
  \E k \in DodgesMade :
    /\ k - 1 \in Events("enemy")
    /\ trace.log[k - 1].enemy.touched
    /\ trace.log[k].after.combo >= 1
    /\ trace.log[k].award > 0
    /\ gameState.isPlaying

\* the step being taken is an update pass that ran to its end
Updated == trace'.op = "update" /\ Did("updated") # {}

\* C26: combo decay is polled once per update pass.  After every completed
\* pass combo > 0 implies that the clock reading of the pass minus
\* lastDodgeTime is at most comboTimeout; combo is never negative; and combo
\* goes back to 0 only in updateCombo (a completed pass whose clock reading is
\* more than comboTimeout after lastDodgeTime) or in restartGame.
C26_ComboPolledEachPass ==
  [][/\ gameState'.combo >= 0
     /\ (Updated /\ gameState'.combo > 0) =>
          clock' - gameState'.lastDodgeTime <= CONFIG[variant].comboTimeout
     /\ (gameState.combo > 0 /\ gameState'.combo = 0) =>
          \/ Restarted
          \/ /\ Updated
             /\ clock' - gameState'.lastDodgeTime > CONFIG[variant].comboTimeout
             /\ gameState'.lastDodgeTime = gameState.lastDodgeTime]_vars

\* a pass that ends with a live streak exactly comboTimeout old, after a pass
\* before it had left the streak alone
C26_Witness ==
  /\ trace.op = "update"
  /\ Events("updated") # {}
  /\ gameState.combo > 0
  /\ clock - gameState.lastDodgeTime = CONFIG[variant].comboTimeout
  /\ DodgesMade = {}

\* a pass in which updateCombo ended a streak
C26_WitnessReset ==
  /\ trace.op = "update"
  /\ \E k \in Events("updated") : trace.log[k].before.combo >= 1
  /\ gameState.combo = 0
  /\ clock - gameState.lastDodgeTime > CONFIG[variant].comboTimeout

\* how long an effect of each type lasts, ms
Lasts(type) ==
  CASE type = "SHIELD" -> 5000
    [] type = "MAGNET" -> 7000
    [] type = "SLOW_MO" -> 5000
    [] type = "DOUBLE_POINTS" -> 10000
    [] type = "NITRO" -> 3000

\* event k is a collection while an effect of type `prior` had time left
Extends(k, prior) ==
  /\ trace.log[k].before.activePowerUp = prior
  /\ trace.log[k].before.powerUpEndTime > trace.log[k].now

\* C27: collecting a power-up of type T at clock time t sets powerUpEndTime
\* to exactly t + duration(T), whatever was active before; the time left of
\* a previous effect is never added.
C27_ExpiryFromCollection ==
  \A k \in Events("collectPowerUp") :
    /\ trace.log[k].type \in Types(variant)
    /\ trace.log[k].after.powerUpEndTime = trace.log[k].now + Lasts(trace.log[k].type)

\* a power-up collected while an effect of the same type had time left
C27_Witness ==
  \E k \in Events("collectPowerUp") :
    /\ Extends(k, trace.log[k].type)
    /\ gameState.activePowerUp = trace.log[k].type

\* Nitro collected while a Shield had time left
C27_WitnessOther ==
  \E k \in Events("collectPowerUp") :
    /\ trace.log[k].type = "NITRO"
    /\ Extends(k, "SHIELD")
    /\ gameState.powerUpEndTime = clock + 3000

\* the intervals of the live enemy spawn timers
Rates(ts) == {ts[i].rate : i \in Live(ts, "enemy")}

\* the step being taken runs startSpawners: the countdown's start callback
\* or resumeGame
StartsSpawners == Did("start") \cup Did("resumeGame") # {}

\* C28: the enemy spawn interval in effect is max(minEnemySpawnRate,
\* enemySpawnRate - 100 * L), L the difficultyLevel at the most recent
\* startSpawners call: a step that runs startSpawners leaves exactly that
\* interval, any other step leaves the interval as it was (or no timer), and
\* the interval always lies in 600 .. 1400 ms.
C28_SpawnRateSetAtStart ==
  [][/\ \A r \in Rates(timers) \cup Rates(timers') : r >= 600 /\ r <= 1400
     /\ IF StartsSpawners
        THEN Rates(timers') =
               {Max(CONFIG[variant].minEnemySpawnRate,
                    CONFIG[variant].enemySpawnRate
                      - 100 * gameState'.difficultyLevel)}
        ELSE Rates(timers') \subseteq Rates(timers)]_vars

\* a pass in which difficultyLevel rose to 2 under a timer set at level 1
C28_Witness ==
  /\ trace.op = "update"
  /\ \E k \in Events("updated") : trace.log[k].before.difficultyLevel = 1
  /\ gameState.difficultyLevel = 2
  /\ Rates(timers) = {1400}

\* the game resumed at level 2: the interval is now 1300 ms
C28_WitnessResumed ==
  /\ Events("resumeGame") # {}
  /\ gameState.difficultyLevel = 2
  /\ Rates(timers) = {1300}

\* the game resumed at a level of 10 or more: the interval is 600 ms
C28_WitnessFloor ==
  /\ Events("resumeGame") # {}
  /\ gameState.difficultyLevel >= 10
  /\ Rates(timers) = {600}

\* C29: in every state at most one interval timer is live for each spawner
\* kind (enemy, coin, power-up), and the program's variable for that kind
\* names it: there is no duplicate and no orphaned spawner timer.  While
\* the game is paused or over no spawner timer is live.
C29_OneTimerPerSpawner ==
  /\ \A kind \in SpawnerKinds :
       /\ Cardinality(Live(timers, kind)) <= 1
       /\ \A i \in Live(timers, kind) : timers[i].held
  /\ (gameState.isPaused \/ gameState.isGameOver) =>
       \A kind \in SpawnerKinds : Live(timers, kind) = {}

\* spawners set up by a start callback that ran while the game was being
\* played, its spawners live
C29_Witness ==
  /\ \E k \in Events("start") :
       trace.log[k].before.isPlaying /\ ~trace.log[k].before.isPaused
  /\ \A kind \in SpawnerKinds : Cardinality(Live(timers, kind)) = 1
  /\ gameState.isPlaying

\* the game resumed after a pause: one timer of each kind again
C29_WitnessResumed ==
  /\ Events("resumeGame") # {}
  /\ \A kind \in SpawnerKinds : Cardinality(Live(timers, kind)) = 1

\* an enemy of `lane` is less than 2 * enemyHeight down the screen
Near(lane) ==
  \E i \in 1 .. Len(enemies) :
    /\ enemies[i].lane = lane
    /\ enemies[i].y < Px(2 * CONFIG[variant].enemyHeight)

\* the enemy spawnEnemy has just stored
Spawned == enemies'[Len(enemies')]

\* C30: spawnEnemy adds an enemy in its chosen lane only if no enemy of that
\* lane has y < 2 * enemyHeight (and the game is being played); otherwise
\* the enemy store is unchanged.  The new enemy starts at y = -enemyHeight
\* with passed false, and overlaps no enemy of its lane.
C30_SpawnOnlyInClearLane ==
  [][\A k \in Did("spawnEnemy") :
       IF gameState.isPlaying /\ ~gameState.isPaused /\ ~Near(trace'.log[k].lane)
       THEN /\ Len(enemies') = Len(enemies) + 1
            /\ SubSeq(enemies', 1, Len(enemies)) = enemies
            /\ Spawned.lane = trace'.log[k].lane
            /\ Spawned.x = getLaneX(variant, Spawned.lane)
            /\ Spawned.y = -Px(CONFIG[variant].enemyHeight)
            /\ ~Spawned.passed
            /\ \A i \in 1 .. Len(enemies) :
                 enemies[i].lane = Spawned.lane =>
                   enemies[i].y >= Spawned.y + Px(CONFIG[variant].enemyHeight)
       ELSE enemies' = enemies]_vars

\* a spawn turned down: an enemy of the chosen lane is still near the top
C30_Witness ==
  /\ trace.op = "spawnEnemy"
  /\ gameState.isPlaying /\ ~gameState.isPaused
  /\ \E k \in Events("spawnEnemy") : Near(trace.log[k].lane)
  /\ Len(enemies) = 1
  /\ fuel.spawns > 0

\* a spawn into a lane whose enemy is 2 * enemyHeight or more down the screen
C30_WitnessBehind ==
  /\ trace.op = "spawnEnemy"
  /\ Len(enemies) = 2
  /\ enemies[1].lane = enemies[2].lane
  /\ enemies[2].y = -Px(CONFIG[variant].enemyHeight)
  /\ enemies[1].y < Px(2 * CONFIG[variant].enemyHeight + 10)

\* the j-th smallest index of the set keep
Nth(keep, j) == CHOOSE m \in keep : Cardinality({n \in keep : n <= m}) = j

\* the enemies of the next state are enemies kept from this one, in their
\* order and each with the speed it had, and at most one new enemy after them
SpeedsKept ==
  \E keep \in SUBSET (1 .. Len(enemies)) :
    LET n == Cardinality(keep)
    IN /\ Len(enemies') \in {n, n + 1}
       /\ Len(enemies') = n + 1 => Did("spawnEnemy") # {}
       /\ \A j \in 1 .. n :
            /\ enemies'[j].speed = enemies[Nth(keep, j)].speed
            /\ enemies'[j].lane = enemies[Nth(keep, j)].lane
            /\ enemies'[j].x = enemies[Nth(keep, j)].x

\* C31: an enemy's speed is initialEnemySpeed + 0.5 * difficultyLevel taken
\* at its spawn (speeds are kept in half px per tick: 2 * 4 + level) and
\* never changes afterwards; it is not held at maxEnemySpeed, so an enemy
\* spawned at a level above 16 is faster than maxEnemySpeed.
C31_SpeedFixedAtSpawn ==
  [][/\ SpeedsKept
     /\ (Did("spawnEnemy") # {} /\ Len(enemies') = Len(enemies) + 1) =>
          /\ Spawned.speed = 2 * 4 + gameState.difficultyLevel
          /\ gameState.difficultyLevel > 16 =>
               Spawned.speed > 2 * CONFIG[variant].maxEnemySpeed]_vars

\* an enemy spawned at a level above 16: faster than maxEnemySpeed
C31_Witness ==
  /\ trace.op = "spawnEnemy"
  /\ gameState.difficultyLevel > 16
  /\ Len(enemies) > 0
  /\ enemies[Len(enemies)].speed = 8 + gameState.difficultyLevel
  /\ enemies[Len(enemies)].speed > 24

\* an enemy spawned at level 1 and moved by the pass that brings level 2
C31_WitnessLevelRose ==
  /\ trace.op = "update"
  /\ \E k \in Events("updated") : trace.log[k].before.difficultyLevel = 1
  /\ gameState.difficultyLevel = 2
  /\ \E i \in 1 .. Len(enemies) :
       enemies[i].speed = 9 /\ enemies[i].y > -Px(CONFIG[variant].enemyHeight)

\* store s1 is store s with at most one entity appended
Appended(s, s1) == s1 = s \/ (Len(s1) = Len(s) + 1 /\ SubSeq(s1, 1, Len(s)) = s)

\* the step being taken left everything but the three stores as it was
OnlyStores ==
  /\ gameState' = gameState
  /\ player' = player
  /\ inputState' = inputState
  /\ timers' = timers
  /\ localStorage' = localStorage
  /\ clock' = clock

\* C32: a spawner callback, whenever it fires, only appends: it adds at most
\* one entity at the end of its own store and leaves every stored entity, the
\* two other stores, the player and every gameState field as they were.
C32_SpawnersOnlyAppend ==
  [][/\ trace'.op = "spawnEnemy" =>
          /\ OnlyStores
          /\ Appended(enemies, enemies')
          /\ coins' = coins /\ powerUps' = powerUps
     /\ trace'.op = "spawnCoin" =>
          /\ OnlyStores
          /\ Appended(coins, coins')
          /\ enemies' = enemies /\ powerUps' = powerUps
     /\ trace'.op = "spawnPowerUp" =>
          /\ OnlyStores
          /\ Appended(powerUps, powerUps')
          /\ enemies' = enemies /\ coins' = coins]_vars

\* an enemy spawned between two update passes into a store that holds an
\* enemy the passes before have moved
C32_Witness ==
  /\ trace.op = "spawnEnemy"
  /\ Len(enemies) = 2
  /\ enemies[1].y > 0
  /\ enemies[1].lane # enemies[2].lane
  /\ enemies[2].y = -Px(CONFIG[variant].enemyHeight)
  /\ fuel.ticks > 0

\* a coin spawned, the other stores left alone
C32_WitnessCoin ==
  /\ trace.op = "spawnCoin"
  /\ Len(coins) = 1
  /\ gameState.isPlaying

\* a power-up spawned, the other stores left alone
C32_WitnessPowerUp ==
  /\ trace.op = "spawnPowerUp"
  /\ Len(powerUps) = 1
  /\ gameState.isPlaying

\* C33: restartGame, from any state, resets score, coins, distance,
\* dodgedCars and combo to 0, currentSpeed and difficultyLevel to 1, clears
\* every power-up flag and activePowerUp, empties the three stores and sets
\* targetLane to 2, and leaves topScore and totalCoins (held and stored) as
\* they were: the coins of a run given up are not added to totalCoins.
C33_RestartResets ==
  [][Restarted =>
       /\ gameState'.score = 0 /\ gameState'.coins = 0
       /\ gameState'.distance = [px |-> 0, frac |-> 0]
       /\ gameState'.dodgedCars = 0 /\ gameState'.combo = 0
       /\ gameState'.currentSpeed = SpeedUnit
       /\ gameState'.difficultyLevel = 1
       /\ \A type \in AllTypes : ~Flag(gameState', type)
       /\ gameState'.activePowerUp = Null
       /\ enemies' = <<>> /\ coins' = <<>> /\ powerUps' = <<>>
       /\ inputState'.targetLane = 2
       /\ gameState'.topScore = gameState.topScore
       /\ gameState'.totalCoins = gameState.totalCoins
       /\ localStorage' = localStorage]_vars

\* a run with coins collected, a power-up active and an enemy on screen,
\* given up before its crash: the coins are gone, totalCoins is as before
C33_Witness ==
  \E k \in Events("restartGame") :
    LET before == trace.log[k].before
    IN /\ before.gameState.isPlaying /\ ~before.gameState.isGameOver
       /\ before.gameState.coins > 0
       /\ before.gameState.score > 0
       /\ Len(before.enemies) > 0
       /\ before.gameState.topScore > 0
       /\ gameState.totalCoins = before.gameState.totalCoins
       /\ gameState.coins = 0

\* restartGame after a crash under an active power-up
C33_WitnessAfterCrash ==
  \E k \in Events("restartGame") :
    LET before == trace.log[k].before
    IN /\ before.gameState.isGameOver
       /\ before.gameState.activePowerUp # Null
       /\ gameState.activePowerUp = Null

\* the entity at the end of store s1 was spawned in the step being taken
SpawnedInto(op, s, s1) == trace'.op = op /\ Len(s1) = Len(s) + 1

\* an entity `width` px wide with left edge x has its centre on the centre of
\* its lane
Centred(e, width) ==
  2 * e.x + Px(width) = (2 * e.lane + 1) * laneWidth(variant)

\* C34: every spawned enemy, coin and power-up gets
\* x = lane * laneWidth + (laneWidth - entityWidth) / 2, entityWidth its own
\* width or size, so that its centre x + width / 2 is the centre of its lane.
C34_SpawnedCentredInLane ==
  [][/\ SpawnedInto("spawnEnemy", enemies, enemies') =>
          Centred(enemies'[Len(enemies')], CONFIG[variant].enemyWidth)
     /\ SpawnedInto("spawnCoin", coins, coins') =>
          Centred(coins'[Len(coins')], CONFIG[variant].coinSize)
     /\ SpawnedInto("spawnPowerUp", powerUps, powerUps') =>
          Centred(powerUps'[Len(powerUps')], CONFIG[variant].powerUpSize)]_vars

\* C34, what the code keeps: every spawned entity gets the x of a car of the
\* player's width centred in its lane, getLaneX(lane); a spawned enemy, as
\* wide as the player, is centred in its lane.
C34_SpawnedAtPlayerLaneX ==
  [][/\ SpawnedInto("spawnEnemy", enemies, enemies') =>
          /\ Centred(enemies'[Len(enemies')], CONFIG[variant].playerWidth)
          /\ Centred(enemies'[Len(enemies')], CONFIG[variant].enemyWidth)
     /\ SpawnedInto("spawnCoin", coins, coins') =>
          Centred(coins'[Len(coins')], CONFIG[variant].playerWidth)
     /\ SpawnedInto("spawnPowerUp", powerUps, powerUps') =>
          Centred(powerUps'[Len(powerUps')], CONFIG[variant].playerWidth)]_vars

\* a coin just spawned, its centre left of the centre of its lane by half the
\* difference between playerWidth and coinSize
C34_Witness ==
  /\ trace.op = "spawnCoin"
  /\ Len(coins) = 1
  /\ coins[1].y = -Px(CONFIG[variant].coinSize)
  /\ 2 * coins[1].x + Px(CONFIG[variant].coinSize)
       = (2 * coins[1].lane + 1) * laneWidth(variant)
           - Px(CONFIG[variant].playerWidth - CONFIG[variant].coinSize)

\* the run has ended, or is not being played
Over == gameState.isGameOver \/ ~gameState.isPlaying \/ gameState.isPaused

\* the enemies of the next state are enemies of this one, each further down
EnemiesAdvance ==
  \E keep \in SUBSET (1 .. Len(enemies)) :
    /\ Len(enemies') = Cardinality(keep)
    /\ \A j \in 1 .. Len(enemies') :
         /\ enemies'[j].lane = enemies[Nth(keep, j)].lane
         /\ enemies'[j].speed = enemies[Nth(keep, j)].speed
         /\ enemies'[j].y > enemies[Nth(keep, j)].y

\* the power-ups of the next state are power-ups of this one, each further down
PowerUpsAdvance ==
  \E keep \in SUBSET (1 .. Len(powerUps)) :
    /\ Len(powerUps') = Cardinality(keep)
    /\ \A j \in 1 .. Len(powerUps') :
         /\ powerUps'[j].lane = powerUps[Nth(keep, j)].lane
         /\ powerUps'[j].type = powerUps[Nth(keep, j)].type
         /\ powerUps'[j].y > powerUps[Nth(keep, j)].y

\* no stored entity is beyond the line at which the pass removes it
OnScreen ==
  /\ \A i \in 1 .. Len(enemies) :
       enemies[i].y <= Px(canvasHeight + CONFIG[variant].enemyHeight)
  /\ \A i \in 1 .. Len(coins) :
       coins[i].y <= Px(canvasHeight + CONFIG[variant].coinSize)
  /\ \A i \in 1 .. Len(powerUps) :
       powerUps[i].y <= Px(canvasHeight + CONFIG[variant].powerUpSize)

\* each store with entities in it is eventually empty, unless the run ends
StoresEmptied ==
  /\ (Len(enemies) > 0) ~> (enemies = <<>> \/ Over)
  /\ (Len(coins) > 0) ~> (coins = <<>> \/ Over)
  /\ (Len(powerUps) > 0) ~> (powerUps = <<>> \/ Over)

\* C35: with update passes scheduled fairly while the game is played and not
\* paused, every entity in a store eventually leaves it or the run ends:
\* every effective pass moves every enemy strictly down and keeps no entity
\* beyond canvasHeight plus its size, and each store with entities in it is
\* eventually empty unless the run ends.
C35_EntitiesLeave ==
  /\ [][Updated =>
          /\ EnemiesAdvance
          /\ PowerUpsAdvance
          /\ Len(coins') <= Len(coins)
          /\ OnScreen']_vars
  /\ StoresEmptied

\* C35, with the pass of a crash set apart: every effective pass that does
\* not end the run moves every enemy strictly down; every effective pass,
\* that of a crash too, moves every power-up down, adds no coin and keeps no
\* entity beyond canvasHeight plus its size; and each store with entities in
\* it is eventually empty unless the run ends.
C35_EntitiesLeaveOrRunEnds ==
  /\ [][Updated =>
          /\ ~gameState'.isGameOver => EnemiesAdvance
          /\ PowerUpsAdvance
          /\ Len(coins') <= Len(coins)
          /\ OnScreen']_vars
  /\ StoresEmptied

\* a run still being played after passes enough to have emptied stores that
\* held two enemies, a coin and a power-up
C35_Witness ==
  /\ trace.op = "update"
  /\ gameState.isPlaying /\ ~gameState.isGameOver
  /\ enemies = <<>> /\ coins = <<>> /\ powerUps = <<>>
  /\ gameState.dodgedCars = 2
  /\ gameState.coins = 0
  /\ fuel.ticks < LiveTicks - 100

\* a run ended by the second of two enemies: the pass of the crash did not
\* get to the first one, which is beside the player, and left it where it was
C35_WitnessOver ==
  /\ trace.op = "update"
  /\ gameState.isGameOver
  /\ Len(enemies) = 2
  /\ enemies[1].y > player.y
  /\ Events("enemy") # {}
  /\ \A k \in Events("enemy") : trace.log[k].enemy.lane = enemies[2].lane
  /\ fuel.ticks < LiveTicks

====
